---- MODULE Spec2Model ----
(***************************************************************************)
(* WatchDog: the bucketed metrics aggregator                               *)
(* (src/watchdog/metrics/aggregator.py) driven by the workers of           *)
(* src/watchdog/cli.py.                                                    *)
(*                                                                         *)
(* Three callers share one MetricsAggregator:                              *)
(*   "tail"   - the log-tailing worker, calls record_log_events([event])   *)
(*   "poll"   - the polling worker, calls record_user_counters,            *)
(*              record_ip_counters and purge_expired                       *)
(*   "report" - the consumer of snapshots, calls snapshot()                *)
(* Time is counted in whole seconds; a datetime is its POSIX timestamp.    *)
(*                                                                         *)
(* The tail worker reads the access log through XrayLogWatcher             *)
(* (src/watchdog/collectors/xray_log_watcher.py): stream() follows the     *)
(* file while another process appends to it, snapshot(limit) reads it      *)
(* once.                                                                   *)
(***************************************************************************)
EXTENDS Integers, Sequences, FiniteSets, TLC

\* ---------------------------------------------------------------- bounds
BucketSeconds == 2      \* MetricsConfig.bucket_interval, scaled down
Retention == 1          \* MetricsConfig.retention, scaled down
MaxTime == 4            \* the wall clock runs over 0..MaxTime
MaxCounter == 2         \* cumulative uplink values reported by a poll
MaxCalls == 3           \* record_* and purge_expired calls in one run
MaxSnapshots == 2       \* snapshot() calls in one run
MaxPlan == 2            \* calls in each worker's fixed sequence of calls
MaxLines == 2           \* lines of the access log when it is read once
MaxLimit == 2           \* the limit passed to XrayLogWatcher.snapshot
MaxAppends == 2         \* writes of the process that appends to the access log
MaxCycles == 1          \* poll cycles of the polling worker
MaxPort == 10           \* the port of a target string
MaxBytes == 2           \* a traffic counter of a JSON record

\* ---------------------------------------------------------------- inputs
Emails == {"u1", "u2"}
Ips == {"ip1", "ip2"}
Threads == {"tail", "poll", "report"}
NoThread == "none"

\* sort ranks of the strings (Python compares str lexicographically)
StrRank == [s \in {"", "ip1", "ip2", "u1", "u2"} |->
              CASE s = "" -> 0 [] s = "ip1" -> 1 [] s = "ip2" -> 2
                [] s = "u1" -> 3 [] s = "u2" -> 4]

EmptyMap == [x \in {} |-> 0]

Max(a, b) == IF a >= b THEN a ELSE b

\* dict.get(key, 0)
Get(m, k) == IF k \in DOMAIN m THEN m[k] ELSE 0

\* d[k] = d.get(k, 0) + 1
Incr(m, k) == [x \in (DOMAIN m) \cup {k} |-> IF x = k THEN Get(m, k) + 1 ELSE m[x]]

\* d[k] = v
Put(m, k, v) == [x \in (DOMAIN m) \cup {k} |-> IF x = k THEN v ELSE m[x]]

\* del d[k] for every k in ks
Drop(m, ks) == [x \in (DOMAIN m) \ ks |-> m[x]]

RECURSIVE SumMap(_)
SumMap(m) ==
  IF DOMAIN m = {} THEN 0
  ELSE LET k == CHOOSE x \in DOMAIN m : TRUE
       IN m[k] + SumMap(Drop(m, {k}))

\* ------------------------------------------------------- pure functions
\* a bucket start rounded up to the next multiple of the width
bucket_epoch_rounded_up(seconds) ==
  ((seconds + BucketSeconds - 1) \div BucketSeconds) * BucketSeconds

\* MetricsAggregator._bucket_epoch
bucket_epoch(seconds) == (seconds \div BucketSeconds) * BucketSeconds

\* _compute_delta without the reset branch
compute_delta_no_reset(current, previous) == Max(0, current) - Max(0, previous)

\* MetricsAggregator._compute_delta
compute_delta(current, previous) ==
  LET cur == Max(0, current)
      prev == Max(0, previous)
  IN IF cur >= prev THEN cur - prev ELSE cur

\* _MutableUserBucket(email, bucket_epoch, bucket_start)
MutableUserBucket(email, epoch) ==
  [email |-> email, bucket_epoch |-> epoch, up_bytes |-> 0, down_bytes |-> 0,
   conn_total |-> 0, conn_tcp |-> 0, conn_udp |-> 0, rejects |-> 0,
   ip_counts |-> EmptyMap, host_counts |-> EmptyMap, ip_set |-> {}]

\* _MutableIpBucket(ip, bucket_epoch, bucket_start)
MutableIpBucket(ip, epoch) ==
  [ip |-> ip, bucket_epoch |-> epoch, measured_bytes |-> 0, estimated_bytes |-> 0,
   conn_total |-> 0, users |-> EmptyMap, host_counts |-> EmptyMap]

\* dict.setdefault(key, default) followed by a read of the entry
SetDefault(m, k, d) == IF k \in DOMAIN m THEN m ELSE Put(m, k, d)

\* a freeze that counts the empty address among the unique ones
freeze_user_counts_empty_ip(b) ==
  [email |-> b.email, bucket_start |-> b.bucket_epoch,
   up_bytes |-> b.up_bytes, down_bytes |-> b.down_bytes,
   conn_total |-> b.conn_total, conn_tcp |-> b.conn_tcp, conn_udp |-> b.conn_udp,
   unique_ips |-> Cardinality(b.ip_set),
   ip_breakdown |-> b.ip_counts, host_breakdown |-> b.host_counts,
   rejects |-> b.rejects]

\* _MutableUserBucket.freeze
freeze_user(b) ==
  [email |-> b.email, bucket_start |-> b.bucket_epoch,
   up_bytes |-> b.up_bytes, down_bytes |-> b.down_bytes,
   conn_total |-> b.conn_total, conn_tcp |-> b.conn_tcp, conn_udp |-> b.conn_udp,
   unique_ips |-> Cardinality({ip \in b.ip_set : ip # ""}),
   ip_breakdown |-> b.ip_counts, host_breakdown |-> b.host_counts,
   rejects |-> b.rejects]

\* str.lower() on the transport and status words that occur in the logs
Lower(s) ==
  CASE s = "UDP" -> "udp" [] s = "TCP" -> "tcp"
    [] s = "Accepted" -> "accepted" [] s = "Rejected" -> "rejected"
    [] OTHER -> s

\* host_label = event.target_host or event.target
HostLabel(ev) == IF ev.target_host # "" THEN ev.target_host ELSE ev.target

\* ---------------------------------------------------------------- state
VARIABLES
  now,          \* the wall clock, datetime.now(timezone.utc)
  user_state,   \* MetricsAggregator._user_state: (email, epoch) -> _MutableUserBucket
  ip_state,     \* MetricsAggregator._ip_state: (ip, epoch) -> _MutableIpBucket
  user_totals,  \* MetricsAggregator._user_totals: email -> (uplink, downlink)
  lock,         \* MetricsAggregator._lock: the thread holding it, or NoThread
  pc,           \* position of each thread inside the call it is making
  snap,         \* locals of the snapshot() call in progress
  returned,     \* the MetricsSnapshot returned by the latest snapshot() call
  calls,        \* how many record_* and purge_expired calls have run their body
  snapshots,    \* how many snapshot() calls have run their locked block
  lastOp,       \* history: the latest call whose body ran, with its arguments
  quiet,        \* history: snapshots returned in a row with no record_*/purge since
  h_reported,   \* history: email -> the counters reported by its latest poll
  ip_polled,    \* history: stored IP buckets that record_ip_counters has touched
  file,         \* the access log: the pieces written to it so far, in order
  exists,       \* whether the path of the access log exists
  source,       \* XrayLogSource: is_json and follow
  stop_event,   \* the threading.Event shared by the workers
  handle,       \* stream(): the read offset of the open file handle
  position,     \* stream(): the local `position`
  line,         \* stream(): the local `line`
  event,        \* stream(): the local `event`, the value it yields
  tail_pc,      \* position of the tail worker in _log_tail_worker and stream()
  main_pc,      \* position of the polling worker in _command_collect_metrics
  cycles,       \* how many poll cycles the polling worker has started
  appends,      \* how many writes the appending process has made
  limit,        \* the argument of XrayLogWatcher.snapshot
  result,       \* what XrayLogWatcher.snapshot returned or raised
  plan,         \* the fixed sequences of calls of the two workers
  done,         \* how many calls of its sequence each worker has made
  h_open,       \* history: the length of the file when stream() opened it
  h_reads,      \* history: read attempts of stream() made with the signal set
  h_yielded,    \* history: the (from, to) offsets of the text of each yielded event
  h_recorded,   \* history: how many yielded events reached record_log_events
  h_stop_at,    \* history: where the tail worker was when the signal was set
  arg,          \* the line, record or target string handed to the normaliser
  out           \* what the normaliser returned or raised for it

aggVars == <<now, user_state, ip_state, user_totals, lock, pc, snap, returned, calls,
             snapshots, lastOp, quiet, h_reported, ip_polled>>
watchVars == <<file, exists, source, stop_event, handle, position, line, event,
               tail_pc, main_pc, cycles, appends, h_open, h_reads, h_yielded,
               h_recorded, h_stop_at>>
onceVars == <<limit, result>>
planVars == <<plan, done>>
lineVars == <<arg, out>>

vars == <<aggVars, watchVars, onceVars, planVars, lineVars>>

\* no snapshot() has returned yet
NoSnapshot ==
  [generated_at |-> -1, users |-> <<>>, ips |-> <<>>, cutoff_epoch |-> 0, polled |-> {}]

\* no snapshot() call is in progress
NoSnap ==
  [now |-> -1, cutoff_epoch |-> 0, user_buckets |-> EmptyMap,
   ip_state_copy |-> EmptyMap, ip_buckets |-> EmptyMap, partial |-> <<>>,
   polled |-> {}]

\* MetricsAggregator.__init__
InitAggregator ==
  /\ now = 0
  /\ user_state = EmptyMap
  /\ ip_state = EmptyMap
  /\ user_totals = EmptyMap
  /\ lock = NoThread
  /\ pc = [t \in Threads |-> "idle"]
  /\ snap = NoSnap
  /\ returned = NoSnapshot
  /\ calls = 0
  /\ snapshots = 0
  /\ lastOp = [kind |-> "none"]
  /\ quiet = 0
  /\ h_reported = EmptyMap
  /\ ip_polled = {}

\* stream(): `line` before the first read
NoLine == [kind |-> "", portion |-> "", ts |-> 0]

\* stream(): `event` before the first parse
NoEvent == [kind |-> "none"]

\* XrayLogWatcher.snapshot has not been called
NoResult == [status |-> "none", events |-> <<>>]

\* no log watcher is at work
InitWatcher ==
  /\ file = <<>>
  /\ exists = TRUE
  /\ source = [is_json |-> FALSE, follow |-> TRUE]
  /\ stop_event = FALSE
  /\ handle = 0
  /\ position = 0
  /\ line = NoLine
  /\ event = NoEvent
  /\ tail_pc = "off"
  /\ main_pc = "off"
  /\ cycles = 0
  /\ appends = 0
  /\ limit = -1
  /\ result = NoResult
  /\ h_open = 0
  /\ h_reads = 0
  /\ h_yielded = <<>>
  /\ h_recorded = 0
  /\ h_stop_at = ""

\* the workers follow no fixed sequence of calls
InitPlan ==
  /\ plan = [tail |-> <<>>, poll |-> <<>>]
  /\ done = [tail |-> 0, poll |-> 0]

\* the normaliser has been handed nothing
NoArg == [form |-> "none"]
NoOut == [kind |-> "pending"]

InitLine ==
  /\ arg = NoArg
  /\ out = NoOut

Init == InitAggregator /\ InitWatcher /\ InitPlan /\ InitLine

\* a step of the aggregator leaves the log watcher and the workers' plans alone
AggregatorOnly == UNCHANGED <<watchVars, onceVars, planVars, lineVars>>

\* a record_* or purge_expired body ran: the run of quiet snapshots ends, and
\* a snapshot in progress is not a quiet one
Disturb == IF pc["report"] = "idle" THEN 0 ELSE -1

\* the snapshot in progress holds references to stored IP bucket objects; an
\* object deleted from _ip_state stays alive through those references
KeepReferenced(copy, deleted) ==
  [k \in DOMAIN copy |->
     IF copy[k].shared /\ k \in deleted
     THEN [shared |-> FALSE, obj |-> ip_state[k]]
     ELSE copy[k]]

\* time.sleep / the passage of wall-clock time
Tick ==
  /\ now < MaxTime
  /\ now' = now + 1
  /\ UNCHANGED <<user_state, ip_state, user_totals, lock, pc, snap, returned, calls,
                   snapshots, lastOp, quiet, h_reported, ip_polled>>
  /\ AggregatorOnly

\* a `with` block that ends without giving the lock back
release_lock_returns_only(t) ==
  /\ pc[t] = "release"
  /\ lock = t
  /\ pc' = [pc EXCEPT ![t] = "idle"]
  /\ UNCHANGED <<now, user_state, ip_state, user_totals, lock, snap, returned, calls,
                   snapshots, lastOp, quiet, h_reported, ip_polled>>

\* `with self._lock:` exits
release_lock(t) ==
  /\ pc[t] = "release"
  /\ lock = t
  /\ lock' = NoThread
  /\ pc' = [pc EXCEPT ![t] = "idle"]
  /\ UNCHANGED <<now, user_state, ip_state, user_totals, snap, returned, calls,
                   snapshots, lastOp, quiet, h_reported, ip_polled>>

\* ------------------------------------------------------------ record_*
\* the loop body without the `continue` on two zero deltas
record_one_user_no_skip(us, email, epoch, up_delta, down_delta) ==
  LET k == <<email, epoch>>
      us1 == SetDefault(us, k, MutableUserBucket(email, epoch))
  IN [us1 EXCEPT ![k].up_bytes = @ + up_delta,
                 ![k].down_bytes = @ + down_delta]

\* the body of the loop of record_user_counters for one email
record_one_user(us, email, epoch, up_delta, down_delta) ==
  IF up_delta = 0 /\ down_delta = 0 THEN us
  ELSE LET k == <<email, epoch>>
           us1 == SetDefault(us, k, MutableUserBucket(email, epoch))
       IN [us1 EXCEPT ![k].up_bytes = @ + up_delta,
                      ![k].down_bytes = @ + down_delta]

\* a baseline that defaults to (0, 0) for an email not seen before
baseline_from_zero(totals, email, snapshot) ==
  IF email \in DOMAIN totals THEN totals[email] ELSE <<0, 0>>

\* self._user_totals.get(email, (snapshot.uplink, snapshot.downlink))
baseline(totals, email, snapshot) ==
  IF email \in DOMAIN totals THEN totals[email] ELSE snapshot

RECURSIVE record_users(_, _, _, _, _)
record_users(us, totals, epoch, counters, todo) ==
  IF todo = {} THEN us
  ELSE LET email == CHOOSE e \in todo : TRUE
           snapshot == counters[email]
           prev == baseline(totals, email, snapshot)
           up_delta == compute_delta(snapshot[1], prev[1])
           down_delta == compute_delta(snapshot[2], prev[2])
       IN record_users(record_one_user(us, email, epoch, up_delta, down_delta),
                       totals, epoch, counters, todo \ {email})

\* a baseline update placed after the `continue` on two zero deltas
update_totals_unless_idle(totals, counters) ==
  [e \in (DOMAIN totals) \cup (DOMAIN counters) |->
     IF e \notin DOMAIN counters THEN totals[e]
     ELSE IF e \notin DOMAIN totals THEN counters[e]
     ELSE IF /\ compute_delta(counters[e][1], totals[e][1]) = 0
             /\ compute_delta(counters[e][2], totals[e][2]) = 0
          THEN totals[e]
          ELSE counters[e]]

\* self._user_totals[email] = (snapshot.uplink, snapshot.downlink), every email
update_totals(totals, counters) ==
  [e \in (DOMAIN totals) \cup (DOMAIN counters) |->
     IF e \in DOMAIN counters THEN counters[e] ELSE totals[e]]

\* MetricsAggregator.record_user_counters(timestamp, counters)
record_user_counters(t, timestamp, counters) ==
  /\ pc[t] = "idle"
  /\ lock = NoThread
  /\ lock' = t
  /\ user_state' = record_users(user_state, user_totals, bucket_epoch(timestamp),
                                counters, DOMAIN counters)
  /\ user_totals' = update_totals(user_totals, counters)
  /\ pc' = [pc EXCEPT ![t] = "release"]
  /\ calls' = calls + 1
  /\ lastOp' = [kind |-> "record_user_counters", timestamp |-> timestamp,
                counters |-> counters, before |-> h_reported]
  /\ quiet' = Disturb
  /\ h_reported' = [e \in (DOMAIN h_reported) \cup (DOMAIN counters) |->
                      IF e \in DOMAIN counters THEN counters[e] ELSE h_reported[e]]
  /\ UNCHANGED <<now, ip_state, snap, returned, snapshots, ip_polled>>

\* the user-bucket half with a fresh bucket object stored for every event
log_user_fresh_bucket(us, ev, epoch) ==
  IF ev.email = "" THEN us
  ELSE LET k == <<ev.email, epoch>>
           b == MutableUserBucket(ev.email, epoch)
       IN Put(us, k, [b EXCEPT !.conn_total = 1, !.conn_tcp = 1,
                               !.ip_counts = Incr(@, ev.ip),
                               !.host_counts = Incr(@, HostLabel(ev)),
                               !.ip_set = {ev.ip}])

\* a user-bucket half that compares the status without lower()
log_user_status_as_written(us, ev, epoch) ==
  IF ev.email = "" THEN us
  ELSE LET k == <<ev.email, epoch>>
           us1 == SetDefault(us, k, MutableUserBucket(ev.email, epoch))
           b == us1[k]
           transport == Lower(ev.transport)
           reject == ev.status # "" /\ ev.status # "accepted"
       IN [us1 EXCEPT ![k] =
             [b EXCEPT !.conn_total = @ + 1,
                       !.conn_udp = IF transport = "udp" THEN @ + 1 ELSE @,
                       !.conn_tcp = IF transport = "udp" THEN @ ELSE @ + 1,
                       !.ip_counts = Incr(@, ev.ip),
                       !.host_counts = Incr(@, HostLabel(ev)),
                       !.ip_set = @ \cup {ev.ip},
                       !.rejects = IF reject THEN @ + 1 ELSE @]]

\* a user-bucket half that counts under conn_tcp the events marked "tcp" only
log_user_tcp_named_only(us, ev, epoch) ==
  IF ev.email = "" THEN us
  ELSE LET k == <<ev.email, epoch>>
           us1 == SetDefault(us, k, MutableUserBucket(ev.email, epoch))
           b == us1[k]
           transport == Lower(ev.transport)
           reject == ev.status # "" /\ Lower(ev.status) # "accepted"
       IN [us1 EXCEPT ![k] =
             [b EXCEPT !.conn_total = @ + 1,
                       !.conn_udp = IF transport = "udp" THEN @ + 1 ELSE @,
                       !.conn_tcp = IF transport = "tcp" THEN @ + 1 ELSE @,
                       !.ip_counts = Incr(@, ev.ip),
                       !.host_counts = Incr(@, HostLabel(ev)),
                       !.ip_set = @ \cup {ev.ip},
                       !.rejects = IF reject THEN @ + 1 ELSE @]]

\* the user-bucket half of the loop body of record_log_events
log_user(us, ev, epoch) ==
  IF ev.email = "" THEN us
  ELSE LET k == <<ev.email, epoch>>
           us1 == SetDefault(us, k, MutableUserBucket(ev.email, epoch))
           b == us1[k]
           transport == Lower(ev.transport)
           reject == ev.status # "" /\ Lower(ev.status) # "accepted"
       IN [us1 EXCEPT ![k] =
             [b EXCEPT !.conn_total = @ + 1,
                       !.conn_udp = IF transport = "udp" THEN @ + 1 ELSE @,
                       !.conn_tcp = IF transport = "udp" THEN @ ELSE @ + 1,
                       !.ip_counts = Incr(@, ev.ip),
                       !.host_counts = Incr(@, HostLabel(ev)),
                       !.ip_set = @ \cup {ev.ip},
                       !.rejects = IF reject THEN @ + 1 ELSE @]]

\* an IP-bucket half that skips the events without an email
log_ip_named_only(ips, ev, epoch) ==
  IF ev.ip = "" \/ ev.email = "" THEN ips
  ELSE LET k == <<ev.ip, epoch>>
           ips1 == SetDefault(ips, k, MutableIpBucket(ev.ip, epoch))
           b == ips1[k]
       IN [ips1 EXCEPT ![k] =
             [b EXCEPT !.conn_total = @ + 1,
                       !.users = Incr(@, ev.email),
                       !.host_counts = Incr(@, HostLabel(ev))]]

\* an IP-bucket half that marks the email as seen instead of counting it
log_ip_users_as_set(ips, ev, epoch) ==
  IF ev.ip = "" THEN ips
  ELSE LET k == <<ev.ip, epoch>>
           ips1 == SetDefault(ips, k, MutableIpBucket(ev.ip, epoch))
           b == ips1[k]
       IN [ips1 EXCEPT ![k] =
             [b EXCEPT !.conn_total = @ + 1,
                       !.users = IF ev.email # "" THEN Put(@, ev.email, 1) ELSE @,
                       !.host_counts = Incr(@, HostLabel(ev))]]

\* the IP-bucket half of the loop body of record_log_events
log_ip(ips, ev, epoch) ==
  IF ev.ip = "" THEN ips
  ELSE LET k == <<ev.ip, epoch>>
           ips1 == SetDefault(ips, k, MutableIpBucket(ev.ip, epoch))
           b == ips1[k]
       IN [ips1 EXCEPT ![k] =
             [b EXCEPT !.conn_total = @ + 1,
                       !.users = IF ev.email # "" THEN Incr(@, ev.email) ELSE @,
                       !.host_counts = Incr(@, HostLabel(ev))]]

\* MetricsAggregator.record_log_events([event]), as the tail worker calls it
record_log_events(t, ev) ==
  /\ pc[t] = "idle"
  /\ lock = NoThread
  /\ lock' = t
  /\ user_state' = log_user(user_state, ev, bucket_epoch(ev.timestamp))
  /\ ip_state' = log_ip(ip_state, ev, bucket_epoch(ev.timestamp))
  /\ pc' = [pc EXCEPT ![t] = "release"]
  /\ calls' = calls + 1
  /\ lastOp' = [kind |-> "record_log_events", event |-> ev]
  /\ quiet' = Disturb
  /\ UNCHANGED <<now, user_totals, snap, returned, snapshots, h_reported, ip_polled>>

RECURSIVE record_ips(_, _, _, _)
record_ips(ips, epoch, counters, todo) ==
  IF todo = {} THEN ips
  ELSE LET ip == CHOOSE i \in todo : TRUE
           k == <<ip, epoch>>
           ips1 == SetDefault(ips, k, MutableIpBucket(ip, epoch))
       IN record_ips([ips1 EXCEPT ![k].measured_bytes = @ + Max(0, counters[ip])],
                     epoch, counters, todo \ {ip})

\* MetricsAggregator.record_ip_counters(timestamp, counters)
record_ip_counters(t, timestamp, counters) ==
  /\ pc[t] = "idle"
  /\ lock = NoThread
  /\ lock' = t
  /\ ip_state' = record_ips(ip_state, bucket_epoch(timestamp), counters, DOMAIN counters)
  /\ pc' = [pc EXCEPT ![t] = "release"]
  /\ calls' = calls + 1
  /\ lastOp' = [kind |-> "record_ip_counters", timestamp |-> timestamp,
                counters |-> counters]
  /\ quiet' = Disturb
  /\ ip_polled' = ip_polled \cup {<<ip, bucket_epoch(timestamp)>> : ip \in DOMAIN counters}
  /\ UNCHANGED <<now, user_state, user_totals, snap, returned, snapshots, h_reported>>

\* --------------------------------------------------------------- purge
\* a purge that keeps one more bucket width than the cutoff asks for
expired_one_bucket_late(state, cutoff_epoch) ==
  {k \in DOMAIN state : state[k].bucket_epoch < cutoff_epoch - BucketSeconds}

\* a purge that also deletes the bucket that starts at the cutoff
expired_at_cutoff_too(state, cutoff_epoch) ==
  {k \in DOMAIN state : state[k].bucket_epoch <= cutoff_epoch}

\* MetricsAggregator._purge_locked: the keys it deletes from a bucket map
expired(state, cutoff_epoch) ==
  {k \in DOMAIN state : state[k].bucket_epoch < cutoff_epoch}

\* a purge that deletes nothing
purge_locked_nothing(state, cutoff_epoch) == state

\* MetricsAggregator._purge_locked
purge_locked(state, cutoff_epoch) == Drop(state, expired(state, cutoff_epoch))

\* MetricsAggregator.purge_expired(as_of)
purge_expired(t, as_of) ==
  LET cutoff_epoch == bucket_epoch(as_of - Retention)
      gone == expired(ip_state, cutoff_epoch)
  IN /\ pc[t] = "idle"
        /\ lock = NoThread
     /\ lock' = t
     /\ user_state' = purge_locked(user_state, cutoff_epoch)
     /\ ip_state' = purge_locked(ip_state, cutoff_epoch)
     /\ snap' = [snap EXCEPT !.ip_state_copy = KeepReferenced(@, gone)]
     /\ pc' = [pc EXCEPT ![t] = "release"]
     /\ calls' = calls + 1
     /\ lastOp' = [kind |-> "purge_expired", as_of |-> as_of,
                   users_before |-> DOMAIN user_state,
                   ips_before |-> DOMAIN ip_state]
     /\ quiet' = Disturb
     /\ ip_polled' = ip_polled \ gone
     /\ UNCHANGED <<now, user_totals, returned, snapshots, h_reported>>

\* ------------------------------------------------------------ snapshot
\* an entry of ip_state_copy that refers to the bucket object stored in _ip_state
SharedRef == [shared |-> TRUE, obj |-> MutableIpBucket("", 0)]

\* the bucket object an entry of ip_state_copy refers to
CopyObj(k) ==
  IF snap.ip_state_copy[k].shared THEN ip_state[k] ELSE snap.ip_state_copy[k].obj

\* snapshot(), lines 171-172: read the clock and compute the cutoff
snapshot_begin(t) ==
  /\ pc[t] = "idle"
  /\ snap' = [now |-> now, cutoff_epoch |-> bucket_epoch(now - Retention),
              user_buckets |-> EmptyMap, ip_state_copy |-> EmptyMap,
              ip_buckets |-> EmptyMap, partial |-> <<>>, polled |-> {}]
  /\ pc' = [pc EXCEPT ![t] = "snap_wait"]
  /\ UNCHANGED <<now, user_state, ip_state, user_totals, lock, returned, calls,
                   snapshots, lastOp, quiet, h_reported, ip_polled>>

\* snapshot(), lines 173-176: purge, freeze the user buckets and copy the
\* _ip_state dict (the copy holds the same bucket objects) under the lock
snapshot_locked(t) ==
  LET gone == expired(ip_state, snap.cutoff_epoch)
      users1 == purge_locked(user_state, snap.cutoff_epoch)
      ips1 == purge_locked(ip_state, snap.cutoff_epoch)
  IN /\ pc[t] = "snap_wait"
     /\ lock = NoThread
     /\ lock' = t
     /\ user_state' = users1
     /\ ip_state' = ips1
     /\ snap' = [snap EXCEPT
                   !.user_buckets = [k \in DOMAIN users1 |-> freeze_user(users1[k])],
                   !.ip_state_copy = [k \in DOMAIN ips1 |-> SharedRef],
                   !.polled = (ip_polled \ gone) \cap DOMAIN ips1]
     /\ pc' = [pc EXCEPT ![t] = "snap_unlock"]
     /\ snapshots' = snapshots + 1
     /\ lastOp' = [kind |-> "snapshot", as_of |-> snap.now,
                   users_before |-> DOMAIN user_state,
                   ips_before |-> DOMAIN ip_state]
     /\ ip_polled' = ip_polled \ gone
     /\ UNCHANGED <<now, user_totals, returned, calls, quiet, h_reported>>

\* snapshot(): the `with self._lock:` block ends after line 176
snapshot_unlock(t) ==
  /\ pc[t] = "snap_unlock"
  /\ lock = t
  /\ lock' = NoThread
  /\ pc' = [pc EXCEPT ![t] = "snap_distribute"]
  /\ UNCHANGED <<now, user_state, ip_state, user_totals, snap, returned, calls,
                   snapshots, lastOp, quiet, h_reported, ip_polled>>

\* _distribute_estimated_ip_bytes: the user buckets that pass both `continue`s
contributes(bucket) ==
  LET total_bytes == bucket.up_bytes + bucket.down_bytes
      total_connections == IF bucket.conn_total # 0 THEN bucket.conn_total
                           ELSE SumMap(bucket.ip_breakdown)
  IN total_bytes > 0 /\ total_connections > 0

\* _distribute_estimated_ip_bytes: int(share) of one user bucket for one IP
share(bucket, ip) ==
  LET total_bytes == bucket.up_bytes + bucket.down_bytes
      total_connections == IF bucket.conn_total # 0 THEN bucket.conn_total
                           ELSE SumMap(bucket.ip_breakdown)
  IN (total_bytes * bucket.ip_breakdown[ip]) \div total_connections

\* the user buckets whose loop body adds to the IP bucket with key k
Givers(user_buckets, k) ==
  {u \in DOMAIN user_buckets :
     /\ contributes(user_buckets[u])
     /\ bucket_epoch(user_buckets[u].bucket_start) = k[2]
     /\ k[1] \in DOMAIN user_buckets[u].ip_breakdown}

RECURSIVE SumShares(_, _, _)
SumShares(user_buckets, k, todo) ==
  IF todo = {} THEN 0
  ELSE LET u == CHOOSE x \in todo : TRUE
       IN share(user_buckets[u], k[1]) + SumShares(user_buckets, k, todo \ {u})

\* everything the loops of _distribute_estimated_ip_bytes add to the bucket k
estimated_bytes_added(user_buckets, k) ==
  SumShares(user_buckets, k, Givers(user_buckets, k))

\* the keys ip_state.setdefault is called with
distribute_targets(user_buckets) ==
  {<<ip, bucket_epoch(user_buckets[u].bucket_start)>> :
     <<u, ip>> \in {p \in (DOMAIN user_buckets) \X {"", "ip1", "ip2"} :
                      /\ contributes(user_buckets[p[1]])
                      /\ p[2] \in DOMAIN user_buckets[p[1]].ip_breakdown}}

\* `target.estimated_bytes += int(share)` on the objects still stored in _ip_state
distribute_stored(ips, copy, user_buckets) ==
  [k \in DOMAIN ips |->
     IF k \in DOMAIN copy /\ copy[k].shared
     THEN [ips[k] EXCEPT !.estimated_bytes = @ + estimated_bytes_added(user_buckets, k)]
     ELSE ips[k]]

\* the same on the objects only the copy refers to, setdefault included
distribute_private(copy, user_buckets) ==
  [k \in (DOMAIN copy) \cup distribute_targets(user_buckets) |->
     IF k \notin DOMAIN copy
     THEN [shared |-> FALSE,
           obj |-> [MutableIpBucket(k[1], k[2]) EXCEPT
                      !.estimated_bytes = estimated_bytes_added(user_buckets, k)]]
     ELSE IF copy[k].shared THEN copy[k]
     ELSE [copy[k] EXCEPT !.obj.estimated_bytes =
                             @ + estimated_bytes_added(user_buckets, k)]]

\* snapshot(), line 178: _distribute_estimated_ip_bytes(user_buckets, ip_state_copy)
snapshot_distribute(t) ==
  /\ pc[t] = "snap_distribute"
  /\ ip_state' = distribute_stored(ip_state, snap.ip_state_copy, snap.user_buckets)
  /\ snap' = [snap EXCEPT !.ip_state_copy = distribute_private(@, snap.user_buckets)]
  /\ pc' = [pc EXCEPT ![t] = "snap_freeze"]
  /\ UNCHANGED <<now, user_state, user_totals, lock, returned, calls, snapshots, lastOp,
                   quiet, h_reported, ip_polled>>

\* _MutableIpBucket.freeze, line 283
freeze_bytes_total(b) == IF b.measured_bytes # 0 THEN b.measured_bytes ELSE b.estimated_bytes

\* a freeze that hands out the bucket's own ip_counts dict
freeze_shares_ip_counts == {"ip_breakdown"}

\* _MutableUserBucket.freeze, lines 262-263, and _MutableIpBucket.freeze, lines
\* 291-292: the breakdown maps of a frozen bucket that are the very dict of the
\* mutable bucket; none, each is a dict(...) copy
freeze_shares == {}

\* a map of a frozen bucket as its holder reads it: through the stored bucket
\* where the two share the dict, the frozen copy otherwise
read_map(field, frozen, state, k, attr) ==
  IF field \in freeze_shares /\ k \in DOMAIN state THEN state[k][attr] ELSE frozen

\* the buckets of the returned MetricsSnapshot as its holder reads them
read_snapshot(s, us, ips) ==
  [users |-> [i \in 1..Len(s.users) |->
                LET u == s.users[i]
                    k == <<u.email, u.bucket_start>>
                IN [u EXCEPT
                      !.ip_breakdown = read_map("ip_breakdown", @, us, k, "ip_counts"),
                      !.host_breakdown =
                         read_map("host_breakdown", @, us, k, "host_counts")]],
   ips |-> [i \in 1..Len(s.ips) |->
              LET b == s.ips[i]
                  k == <<b.ip, b.bucket_start>>
              IN [b EXCEPT
                    !.users = read_map("users", @, ips, k, "users"),
                    !.host_breakdown =
                       read_map("ip_host_breakdown", @, ips, k, "host_counts")]]]

\* _MutableIpBucket.freeze, line 284
freeze_byte_source(b) == IF b.measured_bytes # 0 THEN "measured" ELSE "estimated"

\* _MutableIpBucket.freeze, lines 285-293, given the bytes_total of line 283
freeze_ip(b, bytes_total) ==
  [ip |-> b.ip, bucket_start |-> b.bucket_epoch, bytes_total |-> bytes_total,
   byte_source |-> freeze_byte_source(b), conn_total |-> b.conn_total,
   users |-> b.users, host_breakdown |-> b.host_counts]

\* snapshot(), line 181: freeze() of one bucket starts, line 283 reads the bytes
snapshot_freeze_bytes(t, k) ==
  /\ pc[t] = "snap_freeze"
  /\ k \in (DOMAIN snap.ip_state_copy) \ (DOMAIN snap.ip_buckets)
  /\ snap' = [snap EXCEPT !.partial = <<k, freeze_bytes_total(CopyObj(k))>>]
  /\ pc' = [pc EXCEPT ![t] = "snap_freeze_rest"]
  /\ UNCHANGED <<now, user_state, ip_state, user_totals, lock, returned, calls,
                   snapshots, lastOp, quiet, h_reported, ip_polled>>

\* snapshot(), line 181: the same freeze() goes on, lines 284-293
snapshot_freeze_rest(t) ==
  LET k == snap.partial[1]
  IN /\ pc[t] = "snap_freeze_rest"
     /\ snap' = [snap EXCEPT
                   !.ip_buckets = Put(@, k, freeze_ip(CopyObj(k), snap.partial[2])),
                   !.partial = <<>>]
     /\ pc' = [pc EXCEPT ![t] = "snap_freeze"]
     /\ UNCHANGED <<now, user_state, ip_state, user_totals, lock, returned, calls,
                      snapshots, lastOp, quiet, h_reported, ip_polled>>

\* sort keys with the name before the bucket start
KeyLess_name_first(a, b) ==
  StrRank[a[1]] < StrRank[b[1]] \/ (a[1] = b[1] /\ a[2] < b[2])

\* (bucket_start, name) < (bucket_start, name), the sort keys of lines 180 and 182
KeyLess(a, b) == a[2] < b[2] \/ (a[2] = b[2] /\ StrRank[a[1]] < StrRank[b[1]])

\* list.sort(key=...) of the buckets of a map, as a sequence
RECURSIVE SortedBuckets(_, _)
SortedBuckets(m, todo) ==
  IF todo = {} THEN <<>>
  ELSE LET k == CHOOSE x \in todo : \A y \in todo \ {x} : KeyLess(x, y)
       IN <<m[k]>> \o SortedBuckets(m, todo \ {k})

\* snapshot(), lines 180-189: sort and return the MetricsSnapshot
snapshot_return(t) ==
  /\ pc[t] = "snap_freeze"
  /\ DOMAIN snap.ip_buckets = DOMAIN snap.ip_state_copy
  /\ returned' = [generated_at |-> snap.now,
                  users |-> SortedBuckets(snap.user_buckets, DOMAIN snap.user_buckets),
                  ips |-> SortedBuckets(snap.ip_buckets, DOMAIN snap.ip_buckets),
                  cutoff_epoch |-> snap.cutoff_epoch,
                  polled |-> snap.polled]
  /\ snap' = NoSnap
  /\ pc' = [pc EXCEPT ![t] = "idle"]
  /\ quiet' = IF quiet < 0 THEN 0 ELSE quiet + 1
  /\ UNCHANGED <<now, user_state, ip_state, user_totals, lock, calls, snapshots, lastOp,
                   h_reported, ip_polled>>

\* ------------------------------------------------------- specification
\* the event of one access-log line (LogEvent), the fields the aggregator reads
LogEvent(timestamp, email, ip) ==
  [timestamp |-> timestamp, email |-> email, ip |-> ip, transport |-> "tcp",
   status |-> "accepted", target_host |-> "h1", target |-> "h1:443"]

IpKeys == (Ips \cup {""}) \X (0..MaxTime)

\* snapshot() from start to return, run by thread t
snapshot(t) ==
  \/ snapshots < MaxSnapshots /\ snapshot_begin(t)
  \/ snapshot_locked(t)
  \/ snapshot_unlock(t)
  \/ snapshot_distribute(t)
  \/ \E k \in IpKeys : snapshot_freeze_bytes(t, k)
  \/ snapshot_freeze_rest(t)
  \/ snapshot_return(t)

\* Spec: the two workers of cli.py and a consumer of snapshots running at once,
\* observed within one second of the wall clock
SpecEvents == {LogEvent(now, p[1], p[2]) :
                 p \in {<<"u1", "ip1">>, <<"u1", "ip2">>, <<"u2", "ip1">>, <<"u1", "">>}}
SpecCounters == [{"u1"} -> {<<0, 0>>, <<1, 0>>, <<MaxCounter, 1>>}]
SpecIpCounters == [{"ip1"} -> {-1, 0, 2}]

Next ==
  \/ calls < MaxCalls /\ AggregatorOnly
       /\ \E ev \in SpecEvents : record_log_events("tail", ev)
  \/ calls < MaxCalls /\ AggregatorOnly
       /\ \E counters \in SpecCounters : record_user_counters("poll", now, counters)
  \/ calls < MaxCalls /\ AggregatorOnly
       /\ \E counters \in SpecIpCounters : record_ip_counters("poll", now, counters)
  \/ calls < MaxCalls /\ AggregatorOnly /\ purge_expired("poll", now)
  \/ AggregatorOnly /\ \E t \in {"tail", "poll"} : release_lock(t)
  \/ AggregatorOnly /\ snapshot("report")

Spec == Init /\ [][Next]_vars

\* SpecPolls: the polling worker's loop of cli.py (poll, purge, sleep) next to
\* the tail worker, over several seconds
PollsEvents == {LogEvent(now, "u1", "ip1")}
PollsCounters == UNION {[es -> {<<0, 1>>, <<1, 0>>, <<MaxCounter, 1>>}] :
                          es \in (SUBSET Emails) \ {{}}}

NextPolls ==
  \/ Tick
  \/ calls < MaxCalls /\ AggregatorOnly
       /\ \E ev \in PollsEvents : record_log_events("tail", ev)
  \/ calls < MaxCalls /\ AggregatorOnly
       /\ \E counters \in PollsCounters : record_user_counters("poll", now, counters)
  \/ calls < MaxCalls /\ AggregatorOnly /\ purge_expired("poll", now)
  \/ AggregatorOnly /\ \E t \in {"tail", "poll"} : release_lock(t)

SpecPolls == Init /\ [][NextPolls]_vars

\* SpecPurge: buckets ageing out of the retention window; log lines carry
\* the current second or the first one
PurgeEvents == {LogEvent(ts, "u1", "ip1") : ts \in {0, now}}

NextPurge ==
  \/ Tick
  \/ calls < MaxCalls /\ AggregatorOnly
       /\ \E ev \in PurgeEvents : record_log_events("tail", ev)
  \/ calls < MaxCalls /\ AggregatorOnly /\ purge_expired("poll", now)
  \/ AggregatorOnly /\ \E t \in {"tail", "poll"} : release_lock(t)
  \/ AggregatorOnly /\ snapshot("report")

SpecPurge == Init /\ [][NextPurge]_vars

\* SpecRetain: polls, log lines, purge_expired and snapshot() while the clock
\* moves buckets out of the retention window
RetainCounters == [{"u1"} -> {<<1, 0>>, <<MaxCounter, 1>>}]

NextRetain ==
  \/ Tick
  \/ calls < MaxCalls /\ AggregatorOnly /\ record_log_events("tail", LogEvent(now, "u1", "ip1"))
  \/ calls < MaxCalls /\ AggregatorOnly
       /\ \E counters \in RetainCounters : record_user_counters("poll", now, counters)
  \/ calls < MaxCalls /\ AggregatorOnly /\ purge_expired("poll", now)
  \/ AggregatorOnly /\ \E t \in {"tail", "poll"} : release_lock(t)
  \/ AggregatorOnly /\ snapshot("report")

SpecRetain == Init /\ [][NextRetain]_vars

\* SpecInterleave: each worker makes a fixed sequence of calls, the tail worker
\* record_log_events and the polling worker record_user_counters and
\* record_ip_counters, and the two sequences interleave in every way
PlanEvents == {LogEvent(0, "u1", "ip1"), LogEvent(BucketSeconds, "u1", "ip1"),
               LogEvent(0, "u2", "")}
PlanPolls ==
  {[op |-> "user", timestamp |-> 0, counters |-> [e \in {"u1"} |-> <<0, 0>>]],
   [op |-> "user", timestamp |-> 0, counters |-> [e \in {"u1"} |-> <<MaxCounter, 1>>]],
   [op |-> "user", timestamp |-> BucketSeconds, counters |-> [e \in {"u1"} |-> <<1, 0>>]],
   [op |-> "ip", timestamp |-> 0, counters |-> [i \in {"ip1"} |-> 2]]}

SeqsUpTo(S, n) == UNION {[1..m -> S] : m \in 0..n}

InitInterleave ==
  /\ InitAggregator
  /\ InitWatcher
  /\ plan \in [tail : SeqsUpTo(PlanEvents, MaxPlan), poll : SeqsUpTo(PlanPolls, MaxPlan)]
  /\ done = [tail |-> 0, poll |-> 0]
  /\ InitLine

\* _log_tail_worker, line 150: the next call of the tail worker
tail_call ==
  /\ done.tail < Len(plan.tail)
  /\ record_log_events("tail", plan.tail[done.tail + 1])
  /\ done' = [done EXCEPT !.tail = @ + 1]
  /\ UNCHANGED <<watchVars, onceVars, plan, lineVars>>

\* _command_collect_metrics, line 129: the next record_user_counters call of
\* the polling worker
poll_user_call ==
  /\ done.poll < Len(plan.poll)
  /\ plan.poll[done.poll + 1].op = "user"
  /\ record_user_counters("poll", plan.poll[done.poll + 1].timestamp,
                          plan.poll[done.poll + 1].counters)
  /\ done' = [done EXCEPT !.poll = @ + 1]
  /\ UNCHANGED <<watchVars, onceVars, plan, lineVars>>

\* the next record_ip_counters call of the polling worker
poll_ip_call ==
  /\ done.poll < Len(plan.poll)
  /\ plan.poll[done.poll + 1].op = "ip"
  /\ record_ip_counters("poll", plan.poll[done.poll + 1].timestamp,
                        plan.poll[done.poll + 1].counters)
  /\ done' = [done EXCEPT !.poll = @ + 1]
  /\ UNCHANGED <<watchVars, onceVars, plan, lineVars>>

NextInterleave ==
  \/ tail_call
  \/ poll_user_call
  \/ poll_ip_call
  \/ AggregatorOnly /\ \E t \in {"tail", "poll"} : release_lock(t)

SpecInterleave == InitInterleave /\ [][NextInterleave]_vars

\* ----------------------------------------------------------- log watcher
\* The access log is a sequence of pieces in the order they were written. A
\* line written in one write is one piece ("whole"); a line written in two
\* writes is a "head" (no newline yet) followed by its "tail" (the rest and the
\* newline). Offsets into the file are counted in pieces.
\* The kinds of line:
\*   "access"      a free-text access line of user u1 from ip1
\*   "json_obj"    a JSON object with the email u1 and the ip ip1
\*   "json_scalar" valid JSON that is not an object (a number)
\*   "garbage"     text that matches no line grammar and is not JSON
\*   "api"         the free-text line of a loopback call of the management API
\*   "blank"       nothing but white space
LineKinds == {"access", "json_obj", "json_scalar", "garbage", "api", "blank"}

Piece(kind, part, ts) == [kind |-> kind, part |-> part, ts |-> ts]

\* handle.readline() at offset h: the text up to and including the next
\* newline, or up to the end of the file when no newline follows; n is the
\* number of pieces read, 0 for the empty string
readline(f, h) ==
  IF h >= Len(f) THEN [line |-> NoLine, n |-> 0]
  ELSE LET p == f[h + 1]
       IN IF p.part = "head" /\ h + 2 <= Len(f)
          THEN [line |-> [kind |-> p.kind, portion |-> "whole", ts |-> p.ts], n |-> 2]
          ELSE [line |-> [kind |-> p.kind, portion |-> p.part, ts |-> p.ts], n |-> 1]

\* handle.readlines(): every line of the file
RECURSIVE readlines(_, _)
readlines(f, h) ==
  IF h >= Len(f) THEN <<>>
  ELSE <<readline(f, h).line>> \o readlines(f, h + readline(f, h).n)

\* _build_event for the line that only carries metadata.raw
RawEvent(clock) ==
  [timestamp |-> clock, email |-> "", ip |-> "", transport |-> "", status |-> "",
   target_host |-> "", target |-> ""]

Parsed(ev) == [kind |-> "event", event |-> ev]
Nothing == [kind |-> "none"]
Raised(error) == [kind |-> "raise", error |-> error]

\* XrayLogWatcher._normalise_record(json.loads(line))
normalise_record(ln) ==
  IF ln.kind = "json_obj" /\ ln.portion = "whole"
  THEN Parsed(LogEvent(ln.ts, "u1", "ip1"))
  ELSE Raised("TypeError")

\* json.loads(line) succeeds: a whole JSON line, or any part of a number
json_loads_ok(ln) ==
  \/ ln.kind = "json_scalar"
  \/ ln.kind = "json_obj" /\ ln.portion = "whole"

\* XrayLogWatcher._parse_text_line returns an event
parse_text_line_ok(ln) == ln.kind = "access" /\ ln.portion = "whole"

\* XrayLogWatcher._parse_line
parse_line(ln, is_json, clock) ==
  IF ln.kind = "blank" THEN Nothing
  ELSE IF is_json
       THEN IF json_loads_ok(ln) THEN normalise_record(ln) ELSE Nothing
       ELSE IF parse_text_line_ok(ln) THEN Parsed(LogEvent(ln.ts, "u1", "ip1"))
            ELSE IF json_loads_ok(ln) THEN normalise_record(ln)
                 ELSE Parsed(RawEvent(clock))

\* lines[-limit:]
LastLines(lines, n) ==
  LET start == IF -n < 0 THEN Max(0, Len(lines) - n) ELSE 0
  IN SubSeq(lines, start + 1, Len(lines))

\* the loop of XrayLogWatcher.snapshot over the lines kept
RECURSIVE parse_lines(_, _, _)
parse_lines(lines, is_json, clock) ==
  IF lines = <<>> THEN [status |-> "ok", events |-> <<>>]
  ELSE LET first == parse_line(Head(lines), is_json, clock)
           rest == parse_lines(Tail(lines), is_json, clock)
       IN IF first.kind = "raise" THEN [status |-> first.error, events |-> <<>>]
          ELSE IF rest.status # "ok" THEN rest
          ELSE IF first.kind = "none" THEN rest
          ELSE [status |-> "ok", events |-> <<first.event>> \o rest.events]

\* the lines XrayLogWatcher.snapshot(limit) parses; limit -1 stands for None
kept_lines(f, n) ==
  IF n = -1 THEN readlines(f, 0) ELSE LastLines(readlines(f, 0), n)

\* a snapshot that takes a missing file for an empty one
watcher_snapshot_missing_as_empty ==
  /\ result = NoResult
  /\ result' = IF ~exists THEN [status |-> "ok", events |-> <<>>]
               ELSE parse_lines(kept_lines(file, limit), source.is_json, now)
  /\ UNCHANGED <<aggVars, watchVars, limit, planVars, lineVars>>

\* XrayLogWatcher.snapshot(limit)
watcher_snapshot ==
  /\ result = NoResult
  /\ result' = IF ~exists THEN [status |-> "FileNotFoundError", events |-> <<>>]
               ELSE parse_lines(kept_lines(file, limit), source.is_json, now)
  /\ UNCHANGED <<aggVars, watchVars, limit, planVars, lineVars>>

\* ---- the tail worker: _log_tail_worker running the generator stream()
\* an open that starts at the beginning of the file whatever `follow` says
stream_open_at_start ==
  /\ tail_pc = "start"
  /\ exists
  /\ handle' = 0
  /\ h_open' = Len(file)
  /\ tail_pc' = "check"
  /\ UNCHANGED <<aggVars, file, exists, source, stop_event, position, line, event,
                   main_pc, cycles, appends, h_reads, h_yielded, h_recorded, h_stop_at,
                   onceVars, planVars, lineVars>>

\* stream(), lines 90-93: the first next() opens the file
stream_open ==
  /\ tail_pc = "start"
  /\ exists
  /\ handle' = IF source.follow THEN Len(file) ELSE 0
  /\ h_open' = Len(file)
  /\ tail_pc' = "check"
  /\ UNCHANGED <<aggVars, file, exists, source, stop_event, position, line, event,
                   main_pc, cycles, appends, h_reads, h_yielded, h_recorded, h_stop_at,
                   onceVars, planVars, lineVars>>

\* stream(), line 91: path.open raises FileNotFoundError
stream_open_missing ==
  /\ tail_pc = "start"
  /\ ~exists
  /\ tail_pc' = "except"
  /\ UNCHANGED <<aggVars, file, exists, source, stop_event, handle, position, line,
                   event, main_pc, cycles, appends, h_open, h_reads, h_yielded,
                   h_recorded, h_stop_at, onceVars, planVars, lineVars>>

\* stream(), lines 95-96: the signal is set, break
stream_check_stop ==
  /\ tail_pc = "check"
  /\ stop_event
  /\ tail_pc' = "done"
  /\ UNCHANGED <<aggVars, file, exists, source, stop_event, handle, position, line,
                   event, main_pc, cycles, appends, h_open, h_reads, h_yielded,
                   h_recorded, h_stop_at, onceVars, planVars, lineVars>>

\* a loop that goes on to read without looking at the signal
stream_check_go_unchecked ==
  /\ tail_pc = "check"
  /\ tail_pc' = "read"
  /\ UNCHANGED <<aggVars, file, exists, source, stop_event, handle, position, line,
                   event, main_pc, cycles, appends, h_open, h_reads, h_yielded,
                   h_recorded, h_stop_at, onceVars, planVars, lineVars>>

\* stream(), line 95: the signal is not set
stream_check_go ==
  /\ tail_pc = "check"
  /\ ~stop_event
  /\ tail_pc' = "read"
  /\ UNCHANGED <<aggVars, file, exists, source, stop_event, handle, position, line,
                   event, main_pc, cycles, appends, h_open, h_reads, h_yielded,
                   h_recorded, h_stop_at, onceVars, planVars, lineVars>>

\* stream(), lines 97-99: tell() and readline()
stream_read ==
  /\ tail_pc = "read"
  /\ position' = handle
  /\ line' = readline(file, handle).line
  /\ handle' = handle + readline(file, handle).n
  /\ tail_pc' = IF readline(file, handle).n = 0 THEN "eof" ELSE "parse"
  /\ h_reads' = IF stop_event THEN h_reads + 1 ELSE h_reads
  /\ UNCHANGED <<aggVars, file, exists, source, stop_event, event, main_pc, cycles,
                   appends, h_open, h_yielded, h_recorded, h_stop_at, onceVars, planVars, lineVars>>

\* stream(), lines 100-101: nothing read and the signal is set, break
stream_eof_stop ==
  /\ tail_pc = "eof"
  /\ stop_event
  /\ tail_pc' = "done"
  /\ UNCHANGED <<aggVars, file, exists, source, stop_event, handle, position, line,
                   event, main_pc, cycles, appends, h_open, h_reads, h_yielded,
                   h_recorded, h_stop_at, onceVars, planVars, lineVars>>

\* an idle wait that seeks back to the start of the file
stream_eof_wait_rewind ==
  /\ tail_pc = "eof"
  /\ ~stop_event
  /\ handle' = 0
  /\ tail_pc' = "check"
  /\ UNCHANGED <<aggVars, file, exists, source, stop_event, position, line, event,
                   main_pc, cycles, appends, h_open, h_reads, h_yielded, h_recorded, h_stop_at,
                   onceVars, planVars, lineVars>>

\* stream(), lines 100-104: nothing read, sleep, seek back and retry
stream_eof_wait ==
  /\ tail_pc = "eof"
  /\ ~stop_event
  /\ handle' = position
  /\ tail_pc' = "check"
  /\ UNCHANGED <<aggVars, file, exists, source, stop_event, position, line, event,
                   main_pc, cycles, appends, h_open, h_reads, h_yielded, h_recorded, h_stop_at,
                   onceVars, planVars, lineVars>>

\* stream(), line 105: _parse_line raises; _log_tail_worker catches only
\* FileNotFoundError, so the worker thread ends with the exception
stream_parse_raise ==
  /\ tail_pc = "parse"
  /\ parse_line(line, source.is_json, now).kind = "raise"
  /\ tail_pc' = "crashed"
  /\ UNCHANGED <<aggVars, file, exists, source, stop_event, handle, position, line,
                   event, main_pc, cycles, appends, h_open, h_reads, h_yielded,
                   h_recorded, h_stop_at, onceVars, planVars, lineVars>>

\* stream(), lines 105-106: _parse_line returns None, next iteration
stream_parse_skip ==
  /\ tail_pc = "parse"
  /\ parse_line(line, source.is_json, now).kind = "none"
  /\ event' = NoEvent
  /\ tail_pc' = "check"
  /\ UNCHANGED <<aggVars, file, exists, source, stop_event, handle, position, line,
                   main_pc, cycles, appends, h_open, h_reads, h_yielded, h_recorded, h_stop_at,
                   onceVars, planVars, lineVars>>

\* stream(), lines 105-107: yield event
stream_yield ==
  /\ tail_pc = "parse"
  /\ parse_line(line, source.is_json, now).kind = "event"
  /\ event' = parse_line(line, source.is_json, now).event
  /\ h_yielded' = Append(h_yielded, <<position, handle>>)
  /\ tail_pc' = "record"
  /\ UNCHANGED <<aggVars, file, exists, source, stop_event, handle, position, line,
                   main_pc, cycles, appends, h_open, h_reads, h_recorded, h_stop_at, onceVars,
                   planVars, lineVars>>

\* a worker that tests the signal before the hand-over and drops the event
tail_record_unless_stopped ==
  /\ tail_pc = "record"
  /\ IF stop_event
     THEN tail_pc' = "done" /\ UNCHANGED <<aggVars, h_recorded>>
     ELSE /\ record_log_events("tail", event)
          /\ h_recorded' = h_recorded + 1
          /\ tail_pc' = "stop_check"
  /\ UNCHANGED <<file, exists, source, stop_event, handle, position, line, event,
                   main_pc, cycles, appends, h_open, h_reads, h_yielded, h_stop_at,
                   onceVars, planVars, lineVars>>

\* _log_tail_worker, line 150: aggregator.record_log_events([event])
tail_record ==
  /\ tail_pc = "record"
  /\ record_log_events("tail", event)
  /\ h_recorded' = h_recorded + 1
  /\ tail_pc' = "stop_check"
  /\ UNCHANGED <<file, exists, source, stop_event, handle, position, line, event,
                   main_pc, cycles, appends, h_open, h_reads, h_yielded, h_stop_at, onceVars,
                   planVars, lineVars>>

\* _log_tail_worker, lines 151-152: the signal is set, break
tail_stop_break ==
  /\ tail_pc = "stop_check"
  /\ pc["tail"] = "idle"
  /\ stop_event
  /\ tail_pc' = "done"
  /\ UNCHANGED <<aggVars, file, exists, source, stop_event, handle, position, line,
                   event, main_pc, cycles, appends, h_open, h_reads, h_yielded,
                   h_recorded, h_stop_at, onceVars, planVars, lineVars>>

\* _log_tail_worker, line 151: the signal is not set, the generator resumes
tail_resume ==
  /\ tail_pc = "stop_check"
  /\ pc["tail"] = "idle"
  /\ ~stop_event
  /\ tail_pc' = "check"
  /\ UNCHANGED <<aggVars, file, exists, source, stop_event, handle, position, line,
                   event, main_pc, cycles, appends, h_open, h_reads, h_yielded,
                   h_recorded, h_stop_at, onceVars, planVars, lineVars>>

\* _log_tail_worker, lines 153-155: except FileNotFoundError, stop_event.set()
tail_except ==
  /\ tail_pc = "except"
  /\ stop_event' = TRUE
  /\ h_stop_at' = IF stop_event THEN h_stop_at ELSE tail_pc
  /\ tail_pc' = "done"
  /\ UNCHANGED <<aggVars, file, exists, source, handle, position, line, event,
                   main_pc, cycles, appends, h_open, h_reads, h_yielded, h_recorded,
                   onceVars, planVars, lineVars>>

\* every step the tail worker's thread takes
tail_worker ==
  \/ stream_open \/ stream_open_missing
  \/ stream_check_stop \/ stream_check_go
  \/ stream_read
  \/ stream_eof_stop \/ stream_eof_wait
  \/ stream_parse_raise \/ stream_parse_skip \/ stream_yield
  \/ tail_record
  \/ AggregatorOnly /\ release_lock("tail")
  \/ tail_stop_break \/ tail_resume
  \/ tail_except

\* ---- the polling worker: the main thread in _command_collect_metrics
\* lines 126-128: the loop test passes and a poll cycle starts
main_loop_enter ==
  /\ main_pc = "loop"
  /\ cycles < MaxCycles
  /\ cycles' = cycles + 1
  /\ main_pc' = "poll"
  /\ UNCHANGED <<aggVars, file, exists, source, stop_event, handle, position, line,
                   event, tail_pc, appends, h_open, h_reads, h_yielded, h_recorded, h_stop_at,
                   onceVars, planVars, lineVars>>

\* lines 128-129: query_user_traffic() and record_user_counters(now, counters)
main_poll(counters) ==
  /\ main_pc = "poll"
  /\ record_user_counters("poll", now, counters)
  /\ main_pc' = "purge"
  /\ UNCHANGED <<file, exists, source, stop_event, handle, position, line, event,
                   tail_pc, cycles, appends, h_open, h_reads, h_yielded, h_recorded, h_stop_at,
                   onceVars, planVars, lineVars>>

\* line 128: query_user_traffic() raises XrayStatsError, on to `finally`
main_query_fails ==
  /\ main_pc = "poll"
  /\ main_pc' = "finally"
  /\ UNCHANGED <<aggVars, file, exists, source, stop_event, handle, position, line,
                   event, tail_pc, cycles, appends, h_open, h_reads, h_yielded,
                   h_recorded, h_stop_at, onceVars, planVars, lineVars>>

\* line 130: purge_expired(now)
main_purge ==
  /\ main_pc = "purge"
  /\ pc["poll"] = "idle"
  /\ purge_expired("poll", now)
  /\ main_pc' = "sleep"
  /\ UNCHANGED <<file, exists, source, stop_event, handle, position, line, event,
                   tail_pc, cycles, appends, h_open, h_reads, h_yielded, h_recorded, h_stop_at,
                   onceVars, planVars, lineVars>>

\* lines 131-133: sleep until the next tick
main_sleep ==
  /\ main_pc = "sleep"
  /\ pc["poll"] = "idle"
  /\ main_pc' = "loop"
  /\ UNCHANGED <<aggVars, file, exists, source, stop_event, handle, position, line,
                   event, tail_pc, cycles, appends, h_open, h_reads, h_yielded,
                   h_recorded, h_stop_at, onceVars, planVars, lineVars>>

\* line 126: the duration is over (it lasts one poll cycle at least)
main_loop_exit ==
  /\ main_pc = "loop"
  /\ cycles >= 1
  /\ main_pc' = "finally"
  /\ UNCHANGED <<aggVars, file, exists, source, stop_event, handle, position, line,
                   event, tail_pc, cycles, appends, h_open, h_reads, h_yielded,
                   h_recorded, h_stop_at, onceVars, planVars, lineVars>>

\* line 137: finally, stop_event.set()
main_finally ==
  /\ main_pc = "finally"
  /\ stop_event' = TRUE
  /\ h_stop_at' = IF stop_event THEN h_stop_at ELSE tail_pc
  /\ main_pc' = "join"
  /\ UNCHANGED <<aggVars, file, exists, source, handle, position, line, event,
                   tail_pc, cycles, appends, h_open, h_reads, h_yielded, h_recorded,
                   onceVars, planVars, lineVars>>

\* line 138: log_thread.join(timeout=2) returns, the thread ended or not
main_join ==
  /\ main_pc = "join"
  /\ main_pc' = "done"
  /\ UNCHANGED <<aggVars, file, exists, source, stop_event, handle, position, line,
                   event, tail_pc, cycles, appends, h_open, h_reads, h_yielded,
                   h_recorded, h_stop_at, onceVars, planVars, lineVars>>

\* ---- the process that writes the access log
\* one write of a piece at the end of the file
append(p) ==
  /\ exists
  /\ appends < MaxAppends
  /\ IF file # <<>> /\ file[Len(file)].part = "head"
     THEN p.part = "tail" /\ p.kind = file[Len(file)].kind
     ELSE p.part \in {"whole", "head"}
  /\ file' = Append(file, p)
  /\ appends' = appends + 1
  /\ UNCHANGED <<aggVars, exists, source, stop_event, handle, position, line, event,
                   tail_pc, main_pc, cycles, h_open, h_reads, h_yielded, h_recorded, h_stop_at,
                   onceVars, planVars, lineVars>>

\* SpecOnce: a log file that does not change is opened both ways, by
\* XrayLogWatcher.snapshot(limit) (collect-once) and by the first step of
\* stream() in the tail worker
OnceFiles ==
  {[i \in 1..n |-> Piece(ks[i], "whole", 0)] :
     <<n, ks>> \in {<<Len(s), s>> : s \in SeqsUpTo(LineKinds, MaxLines)}}

InitOnce ==
  /\ InitAggregator
  /\ InitPlan
  /\ InitLine
  /\ exists \in BOOLEAN
  /\ file \in IF exists THEN OnceFiles ELSE {<<>>}
  /\ source \in [is_json : BOOLEAN, follow : BOOLEAN]
  /\ limit \in -1..MaxLimit
  /\ result = NoResult
  /\ stop_event = FALSE
  /\ handle = 0
  /\ position = 0
  /\ line = NoLine
  /\ event = NoEvent
  /\ tail_pc = "start"
  /\ main_pc = "off"
  /\ cycles = 0
  /\ appends = 0
  /\ h_open = 0
  /\ h_reads = 0
  /\ h_yielded = <<>>
  /\ h_recorded = 0
  /\ h_stop_at = ""

NextOnce ==
  \/ watcher_snapshot
  \/ stream_open
  \/ stream_open_missing
  \/ tail_except

SpecOnce == InitOnce /\ [][NextOnce]_vars

\* SpecTail: collect-metrics. The tail worker follows the access log while
\* another process appends to it and the polling worker runs its cycles and
\* then sets the cancellation signal; observed until join() returns
TailFiles == {<<>>, <<Piece("json_obj", "whole", 0), Piece("access", "head", 0)>>}
TailPieces == {Piece("access", p, now) : p \in {"whole", "head", "tail"}}
                \cup {Piece("json_scalar", "whole", now)}
TailCounters == {[e \in {"u1"} |-> <<1, 0>>]}

InitTail ==
  /\ InitAggregator
  /\ InitPlan
  /\ InitLine
  /\ exists \in BOOLEAN
  /\ file \in IF exists THEN TailFiles ELSE {<<>>}
  /\ source \in [is_json : BOOLEAN, follow : BOOLEAN]
  /\ limit = -1
  /\ result = NoResult
  /\ stop_event = FALSE
  /\ handle = 0
  /\ position = 0
  /\ line = NoLine
  /\ event = NoEvent
  /\ tail_pc = "start"
  /\ main_pc = "loop"
  /\ cycles = 0
  /\ appends = 0
  /\ h_open = 0
  /\ h_reads = 0
  /\ h_yielded = <<>>
  /\ h_recorded = 0
  /\ h_stop_at = ""

main_worker ==
  \/ main_loop_enter
  \/ \E counters \in TailCounters : main_poll(counters)
  \/ main_query_fails
  \/ main_purge
  \/ main_sleep
  \/ main_loop_exit
  \/ main_finally
  \/ main_join
  \/ AggregatorOnly /\ release_lock("poll")

NextTail ==
  \/ tail_worker
  \/ main_worker
  \/ \E p \in TailPieces : append(p)

SpecTail == InitTail /\ [][NextTail]_vars

\* SpecTailFair: SpecTail with both threads scheduled fairly
SpecTailFair == SpecTail /\ WF_vars(tail_worker) /\ WF_vars(main_worker)

\* SpecFollow: the tail worker follows a log that grows by whole lines only,
\* each stamped with its own second, and nobody sets the cancellation signal
FollowKinds == {"access", "json_obj", "api", "blank"}
FollowFiles == {<<>>, <<Piece("json_obj", "whole", 0)>>, <<Piece("access", "whole", 0)>>}

InitFollow ==
  /\ InitAggregator
  /\ InitPlan
  /\ InitLine
  /\ exists = TRUE
  /\ file \in FollowFiles
  /\ source \in [is_json : BOOLEAN, follow : BOOLEAN]
  /\ limit = -1
  /\ result = NoResult
  /\ stop_event = FALSE
  /\ handle = 0
  /\ position = 0
  /\ line = NoLine
  /\ event = NoEvent
  /\ tail_pc = "start"
  /\ main_pc = "off"
  /\ cycles = 0
  /\ appends = 0
  /\ h_open = 0
  /\ h_reads = 0
  /\ h_yielded = <<>>
  /\ h_recorded = 0
  /\ h_stop_at = ""

NextFollow ==
  \/ stream_open
  \/ stream_check_go
  \/ stream_read
  \/ stream_eof_wait
  \/ stream_parse_skip
  \/ stream_yield
  \/ tail_record
  \/ AggregatorOnly /\ release_lock("tail")
  \/ tail_resume
  \/ \E k \in FollowKinds : append(Piece(k, "whole", Len(file)))

SpecFollow == InitFollow /\ [][NextFollow]_vars

\* ------------------------------------------------------------ normaliser
\* What XrayLogWatcher makes of the text of one line. A string is the sequence
\* of its tokens; a token is one punctuation character (":", "[", "]"), one
\* decimal digit, a run of letters ("tcp", "localhost", "h") or a dotted quad
\* ("127.0.0.1"), so that prefixes, partitions and digit tests are computed on
\* the string as the code computes them. The empty string is <<>>.
Digits == <<"0", "1", "2", "3", "4", "5", "6", "7", "8", "9">>
DigitSet == {Digits[i] : i \in 1..10}
DigitValue(c) == (CHOOSE i \in 1..10 : Digits[i] = c) - 1
Quads == {"127.0.0.1", "10.0.0.1"}

\* str.lower() of one token
LowerTok(c) ==
  CASE c = "API" -> "api" [] c = "LOCALHOST" -> "localhost" [] OTHER -> c

\* str.lower()
LowerStr(s) == [i \in 1..Len(s) |-> LowerTok(s[i])]

\* str.startswith(prefix)
StartsWith(s, prefix) ==
  Len(s) >= Len(prefix) /\ SubSeq(s, 1, Len(prefix)) = prefix

\* str.find(c, from): the first index at or after `from`, 0 when there is none
Find(s, c, from) ==
  IF \E i \in from..Len(s) : s[i] = c
  THEN CHOOSE i \in from..Len(s) : s[i] = c /\ \A j \in from..(i - 1) : s[j] # c
  ELSE 0

\* str.rfind(c): the last index, 0 when there is none
RFind(s, c) ==
  IF \E i \in 1..Len(s) : s[i] = c
  THEN CHOOSE i \in 1..Len(s) : s[i] = c /\ \A j \in (i + 1)..Len(s) : s[j] # c
  ELSE 0

\* str.isdigit()
IsDigit(s) == s # <<>> /\ \A i \in 1..Len(s) : s[i] \in DigitSet

\* int(s) of a digit string
RECURSIVE ToInt(_)
ToInt(s) ==
  IF s = <<>> THEN 0
  ELSE ToInt(SubSeq(s, 1, Len(s) - 1)) * 10 + DigitValue(s[Len(s)])

\* str(n) of a non-negative integer, as the writer of the log renders a port
RECURSIVE ToStr(_)
ToStr(n) ==
  IF n < 10 THEN <<Digits[n + 1]>>
  ELSE ToStr(n \div 10) \o <<Digits[(n % 10) + 1]>>

\* Python's None for an optional port
NoPort == -1

\* _ADDR_PATTERN.search(value): the leftmost bracketed span or dotted quad;
\* at is 0 when nothing matches
addr_search(value) ==
  LET bracket(i) == value[i] = "[" /\ Find(value, "]", i + 1) >= i + 2
      hit(i) == bracket(i) \/ value[i] \in Quads
  IN IF \E i \in 1..Len(value) : hit(i)
     THEN LET i == CHOOSE x \in 1..Len(value) : hit(x) /\ \A y \in 1..(x - 1) : ~hit(y)
          IN [at |-> i,
              group |-> IF bracket(i)
                        THEN SubSeq(value, i + 1, Find(value, "]", i + 1) - 1)
                        ELSE <<value[i]>>]
     ELSE [at |-> 0, group |-> <<>>]

\* XrayLogWatcher._extract_address
extract_address(value) ==
  IF addr_search(value).at # 0 THEN addr_search(value).group
  ELSE IF Find(value, ":", 1) # 0 THEN SubSeq(value, 1, Find(value, ":", 1) - 1)
  ELSE value

\* a port parse that takes 0 for "no port"
parse_port_zero_is_none(digits) == IF ToInt(digits) = 0 THEN NoPort ELSE ToInt(digits)

\* _split_target_fields, lines 291 and 295: port = int(digits)
parse_port(digits) == ToInt(digits)

\* XrayLogWatcher._split_target_fields
split_target_fields(value) ==
  LET prefixed == \E w \in {"tcp", "udp", "unix"} : StartsWith(value, <<w, ":">>)
      cut == Find(value, ":", 1)
      transport == IF prefixed THEN SubSeq(value, 1, cut - 1) ELSE <<>>
      remainder == IF prefixed THEN SubSeq(value, cut + 1, Len(value)) ELSE value
      close == Find(remainder, "]", 1)
      rest == SubSeq(remainder, close + 1, Len(remainder))
      last == RFind(remainder, ":")
      maybe_port == SubSeq(remainder, last + 1, Len(remainder))
  IN IF StartsWith(remainder, <<"[">>)
     THEN IF close # 0
          THEN [transport |-> transport, host |-> SubSeq(remainder, 2, close - 1),
                port |-> IF StartsWith(rest, <<":">>) /\ IsDigit(Tail(rest))
                         THEN parse_port(Tail(rest)) ELSE NoPort]
          ELSE [transport |-> transport, host |-> remainder, port |-> NoPort]
     ELSE IF last # 0 /\ IsDigit(maybe_port)
          THEN [transport |-> transport, host |-> SubSeq(remainder, 1, last - 1),
                port |-> parse_port(maybe_port)]
          ELSE [transport |-> transport, host |-> remainder, port |-> NoPort]

\* the values a JSON record or a metadata mapping holds: a string, an integer,
\* a boolean (an int to Python: True is 1, False is 0) or None, which is also
\* what dict.get reads for a key the mapping lacks
Str(s) == [t |-> "str", s |-> s, n |-> 0]
Num(n) == [t |-> "int", s |-> <<>>, n |-> n]
Bool(b) == [t |-> "bool", s |-> <<>>, n |-> IF b THEN 1 ELSE 0]
None == [t |-> "none", s |-> <<>>, n |-> 0]

\* bool(value), as `or` and `if` test it
Truthy(v) ==
  CASE v.t = "str" -> v.s # <<>>
    [] v.t \in {"int", "bool"} -> v.n # 0
    [] OTHER -> FALSE

\* isinstance(value, str) and value
NonEmptyStr(v) == v.t = "str" /\ v.s # <<>>

\* the lookup keys of _extract_traffic, lines 465-472
uplink_keys == <<"uplink", "upLink", "uplinkBytes", "uplink_bytes", "up">>
downlink_keys == <<"downlink", "downLink", "downlinkBytes", "downlink_bytes", "down">>

\* the candidate keys of _extract_email, _extract_ip, _extract_target and
\* _extract_status, in the order the code tries them
email_keys == <<"email", "Email", "user", "clientEmail", "client">>
ip_keys == <<"ip", "IP", "remote", "remote_addr", "clientIP", "FromAddress", "from">>
target_keys == <<"target", "ToAddress", "to", "destination", "request">>
status_keys == <<"status", "action", "event">>

Range(s) == {s[i] : i \in 1..Len(s)}

\* every key a record or a metadata mapping of the model may hold
Keys ==
  Range(uplink_keys) \cup Range(downlink_keys) \cup Range(email_keys)
    \cup Range(ip_keys) \cup Range(target_keys) \cup Range(status_keys)
    \cup {"detour", "tag", "source", "host", "transport", "port", "raw", "timestamp"}

\* a mapping with no key
NoFields == [k \in Keys |-> None]

\* the first candidate that is a non-empty string, "" when there is none
RECURSIVE FirstStr(_, _)
FirstStr(fields, keys) ==
  IF keys = <<>> THEN <<>>
  ELSE IF NonEmptyStr(fields[Head(keys)]) THEN fields[Head(keys)].s
  ELSE FirstStr(fields, Tail(keys))

\* XrayLogWatcher._extract_email, for a record without session or account
extract_email(fields) == FirstStr(fields, email_keys)

\* XrayLogWatcher._extract_ip, for a record without session
extract_ip(fields) ==
  LET candidate == FirstStr(fields, ip_keys)
  IN IF candidate = <<>> THEN <<>>
     ELSE IF addr_search(candidate).at # 0 THEN addr_search(candidate).group
     ELSE candidate

\* XrayLogWatcher._extract_target, for a record without session
extract_target(fields) == FirstStr(fields, target_keys)

\* XrayLogWatcher._extract_status
extract_status(fields) == FirstStr(fields, status_keys)

\* XrayLogWatcher._lookup_numeric: the value of the first key that holds an
\* int (a bool is one) or a string of digits, None when there is none
RECURSIVE lookup_numeric(_, _)
lookup_numeric(fields, keys) ==
  IF keys = <<>> THEN None
  ELSE LET value == fields[Head(keys)]
       IN IF value.t \in {"int", "bool"} THEN Num(value.n)
          ELSE IF value.t = "str" /\ IsDigit(value.s) THEN Num(ToInt(value.s))
          ELSE lookup_numeric(fields, Tail(keys))

\* `a or b`
Or(a, b) == IF Truthy(a) THEN a ELSE b

\* XrayLogWatcher._extract_traffic on a record and its nested `traffic`
extract_traffic(record) ==
  LET up0 == lookup_numeric(record.fields, uplink_keys)
      down0 == lookup_numeric(record.fields, downlink_keys)
      up == IF record.traffic_is_dict
            THEN Or(up0, lookup_numeric(record.traffic, uplink_keys)) ELSE up0
      down == IF record.traffic_is_dict
              THEN Or(down0, lookup_numeric(record.traffic, downlink_keys)) ELSE down0
  IN <<Or(up, Num(0)).n, Or(down, Num(0)).n>>

\* XrayLogWatcher._address_is_loopback
address_is_loopback(value) ==
  LET address == extract_address(value)
  IN /\ value # <<>>
     /\ address # <<>>
     /\ \/ address[1] = "127.0.0.1"
        \/ address = <<":", ":", "1">>
        \/ LowerStr(address) = <<"localhost">>

\* XrayLogWatcher._host_from_metadata
host_from_metadata(metadata, target) ==
  LET host1 == IF metadata["target"].t = "str"
               THEN split_target_fields(metadata["target"].s).host ELSE <<>>
      host2 == IF host1 = <<>> /\ target # <<>>
               THEN split_target_fields(target).host ELSE host1
  IN IF host2 = <<>> /\ metadata["host"].t = "str" THEN metadata["host"].s ELSE host2

\* a filter that looks at the addresses alone, whatever the detour or tag
is_internal_api_log_any_label(metadata, target, ip) ==
  LET target_host == host_from_metadata(metadata, target)
  IN \/ target_host # <<>> /\ address_is_loopback(target_host)
     \/ \E k \in {"source", "from", "client"} :
          metadata[k].t = "str" /\ address_is_loopback(metadata[k].s)
     \/ ip # <<>> /\ address_is_loopback(ip)

\* XrayLogWatcher._is_internal_api_log
is_internal_api_log(metadata, target, ip) ==
  LET detour == Or(metadata["detour"], metadata["tag"])
      target_host == host_from_metadata(metadata, target)
  IN /\ detour.t = "str"
     /\ \E i \in 1..Len(detour.s) : LowerTok(detour.s[i]) = "api"
     /\ \/ target_host # <<>> /\ address_is_loopback(target_host)
        \/ \E k \in {"source", "from", "client"} :
             metadata[k].t = "str" /\ address_is_loopback(metadata[k].s)
        \/ ip # <<>> /\ address_is_loopback(ip)

\* XrayLogWatcher._build_event
build_event(email, ip, target, split, status, bytes, metadata) ==
  IF is_internal_api_log(metadata, target, ip) THEN Nothing
  ELSE Parsed([email |-> email, ip |-> ip, target |-> target,
               transport |-> split.transport, target_host |-> split.host,
               target_port |-> split.port, status |-> status,
               bytes_read |-> bytes[1], bytes_written |-> bytes[2],
               metadata |-> metadata])

\* metadata with the derived transport, host and port where it lacks them
\* (_normalise_record, lines 347-352)
with_derived(metadata, split) ==
  [k \in Keys |->
     IF k = "transport" /\ metadata[k] = None /\ split.transport # <<>>
     THEN Str(split.transport)
     ELSE IF k = "host" /\ metadata[k] = None /\ split.host # <<>> THEN Str(split.host)
     ELSE IF k = "port" /\ metadata[k] = None /\ split.port # NoPort THEN Num(split.port)
     ELSE metadata[k]]

\* XrayLogWatcher._normalise_record(record) of a JSON object
normalise_record_fields(record) ==
  LET target == extract_target(record.fields)
      split == split_target_fields(target)
  IN build_event(extract_email(record.fields), extract_ip(record.fields), target,
                 split, extract_status(record.fields), extract_traffic(record),
                 with_derived(record.fields, split))

\* XrayLogWatcher._parse_text_line of a line that matches a line grammar and
\* carries no key: value pair but email
parse_text_line(ln) ==
  LET split == split_target_fields(ln.target)
      metadata == with_derived(
                    [NoFields EXCEPT !["timestamp"] = Str(<<"date">>),
                                     !["status"] = Str(ln.status),
                                     !["source"] = Str(ln.source),
                                     !["target"] = Str(ln.target),
                                     !["raw"] = Str(<<"line">>),
                                     !["detour"] = IF ln.detour # <<>> THEN Str(ln.detour)
                                                   ELSE None,
                                     !["email"] = IF ln.email # <<>> THEN Str(ln.email)
                                                  ELSE None],
                    split)
  IN IF /\ metadata["detour"] = Str(<<"api", "->", "api">>)
        /\ StartsWith(ln.source, <<"127.0.0.1", ":">>)
        /\ StartsWith(ln.target, <<"tcp", ":", "127.0.0.1", ":">>)
     THEN Nothing
     ELSE build_event(ln.email, extract_address(ln.source), ln.target, split,
                      ln.status, <<0, 0>>, metadata)

\* _parse_line, lines 152-164: the event that only carries metadata.raw
raw_event ==
  Parsed([email |-> <<>>, ip |-> <<>>, target |-> <<>>, transport |-> <<>>,
          target_host |-> <<>>, target_port |-> NoPort, status |-> <<>>,
          bytes_read |-> 0, bytes_written |-> 0,
          metadata |-> [NoFields EXCEPT !["raw"] = Str(<<"line">>)]])

\* XrayLogWatcher._parse_line on the text of one line. The forms of a line:
\*   "text"     matches a free-text line grammar
\*   "json"     a JSON object
\*   "scalar"   valid JSON that is not an object
\*   "garbage"  matches no grammar and is not JSON
\*   "blank"    nothing but white space
parse_line_fields(ln, is_json) ==
  LET decodes == ln.form \in {"json", "scalar"}
      normalised == IF ln.form = "json" THEN normalise_record_fields(ln)
                    ELSE Raised("TypeError")
      text_event == IF ln.form = "text" THEN parse_text_line(ln) ELSE Nothing
  IN IF ln.form = "blank" THEN Nothing
     ELSE IF is_json THEN (IF decodes THEN normalised ELSE Nothing)
     ELSE IF text_event.kind = "event" THEN text_event
     ELSE IF decodes THEN normalised
     ELSE raw_event

\* SpecLine: the normaliser applied once to one input, every input the sets
\* below hold and both parse strategies
Transports == {<<>>, <<"tcp">>, <<"udp">>, <<"unix">>}
HostNames == {<<"h">>, <<"h", "1">>, <<"tcp">>, <<"unix">>, <<"4", "4", "3">>,
              <<"127.0.0.1">>, <<"localhost">>}
Ipv6Literals == {<<":", ":", "1">>}
Ports == {NoPort} \cup (0..MaxPort)

\* the parts a target string is written from
TargetParts ==
  [form : {"target"}, transport : Transports, host : HostNames, bracketed : {FALSE},
   port : Ports]
    \cup [form : {"target"}, transport : Transports, host : Ipv6Literals,
          bracketed : {TRUE}, port : Ports]

\* "[transport:]host[:port]" as the proxy writes it, an IPv6 literal in brackets
compose_target(p) ==
  (IF p.transport # <<>> THEN p.transport \o <<":">> ELSE <<>>)
    \o (IF p.bracketed THEN <<"[">> \o p.host \o <<"]">> ELSE p.host)
    \o (IF p.port # NoPort THEN <<":">> \o ToStr(p.port) ELSE <<>>)

Target(transport, host, bracketed) ==
  compose_target([transport |-> transport, host |-> host, bracketed |-> bracketed,
                  port |-> 1])

\* free-text lines that match a line grammar
TextLines ==
  [form : {"text"},
   source : {<<"127.0.0.1", ":", "1">>, <<"10.0.0.1", ":", "1">>,
             <<"[", ":", ":", "1", "]", ":", "1">>},
   status : {<<"accepted">>, <<"rejected">>},
   target : {Target(<<"tcp">>, <<"127.0.0.1">>, FALSE),
             Target(<<"tcp">>, <<"10.0.0.1">>, FALSE),
             Target(<<"tcp">>, <<":", ":", "1">>, TRUE),
             Target(<<>>, <<"localhost">>, FALSE)},
   detour : {<<>>, <<"api", "->", "api">>, <<"API", "->", "direct">>, <<"direct">>},
   email : {<<>>, <<"u1">>}]

JsonRecord(fields, traffic_is_dict, traffic) ==
  [form |-> "json", fields |-> fields, traffic_is_dict |-> traffic_is_dict,
   traffic |-> traffic]

\* JSON objects that differ in the fields the loopback filter reads
FilterRecords ==
  {JsonRecord([NoFields EXCEPT !["email"] = Str(<<"u1">>), !["tag"] = f[1],
                               !["detour"] = f[2], !["source"] = f[3],
                               !["ip"] = f[4], !["target"] = f[5]],
              FALSE, NoFields) :
     f \in {None, Str(<<"api">>), Str(<<"API">>)}
             \X {None, Str(<<"direct">>)}
             \X {None, Str(<<"127.0.0.1", ":", "1">>), Str(<<"10.0.0.1", ":", "1">>),
                 Str(<<"[", ":", ":", "1", "]", ":", "1">>), Str(<<":", ":", "1">>),
                 Str(<<"LOCALHOST", ":", "1">>)}
             \X {None, Str(<<"127.0.0.1">>), Str(<<"10.0.0.1">>), Str(<<":", ":", "1">>)}
             \X {None, Str(Target(<<"tcp">>, <<":", ":", "1">>, TRUE)),
                 Str(Target(<<"tcp">>, <<"localhost">>, FALSE)),
                 Str(Target(<<>>, <<"10.0.0.1">>, FALSE))}}

\* JSON objects that differ in their traffic counters
TrafficRecords ==
  {JsonRecord([NoFields EXCEPT !["email"] = Str(<<"u1">>), !["uplink"] = f[1],
                               !["up"] = f[2], !["downlink"] = f[3]],
              f[4], [NoFields EXCEPT !["uplink"] = f[5]]) :
     f \in {None, Num(0), Num(MaxBytes), Num(-1), Str(<<"7">>), Str(<<"0">>),
            Str(<<"h">>), Bool(TRUE)}
             \X {None, Num(1)}
             \X {None, Num(1)}
             \X BOOLEAN
             \X {None, Num(1), Num(-1)}}

OtherLines == {[form |-> "scalar"], [form |-> "garbage"], [form |-> "blank"]}
Lines == TextLines \cup FilterRecords \cup TrafficRecords \cup OtherLines

InitNormalise ==
  /\ InitAggregator
  /\ InitWatcher
  /\ InitPlan
  /\ arg \in TargetParts \cup Lines
  /\ out = NoOut

\* _split_target_fields(value) for a target string
split_target ==
  /\ arg.form = "target"
  /\ out = NoOut
  /\ out' = [kind |-> "split", fields |-> split_target_fields(compose_target(arg))]
  /\ UNCHANGED <<aggVars, watchVars, onceVars, planVars, arg>>

\* _parse_line(line) of a watcher whose source has the given is_json
normalise(is_json) ==
  /\ arg.form \notin {"none", "target"}
  /\ out = NoOut
  /\ out' = [kind |-> "parsed", is_json |-> is_json,
             result |-> parse_line_fields(arg, is_json)]
  /\ UNCHANGED <<aggVars, watchVars, onceVars, planVars, arg>>

NextLine ==
  \/ split_target
  \/ \E is_json \in BOOLEAN : normalise(is_json)

SpecLine == InitNormalise /\ [][NextLine]_vars

\* SpecLog: the tail worker records a fixed sequence of events that differ in
\* email, address and status while snapshots are taken; the clock stands still
LogEventWith(timestamp, email, ip, status) ==
  [LogEvent(timestamp, email, ip) EXCEPT !.status = status]

\* the same event over another transport
Over(transport, ev) == [ev EXCEPT !.transport = transport]

\* the same event of a record that names no target
Untargeted(ev) == [ev EXCEPT !.target_host = "", !.target = ""]

LogEvents ==
  {LogEventWith(0, "u1", "ip1", "accepted"),
   Over("udp", LogEventWith(0, "u1", "ip2", "rejected")),
   Over("", Untargeted(LogEventWith(0, "u1", "", ""))),
   LogEventWith(0, "", "ip1", "blocked"),
   Over("UDP", LogEventWith(0, "u1", "ip1", "Accepted")),
   LogEventWith(0, "", "", "rejected"),
   Over("unix", LogEventWith(BucketSeconds + 1, "u1", "ip1", "blocked")),
   LogEventWith(0, "u2", "ip2", "accepted")}

InitLog ==
  /\ InitAggregator
  /\ InitWatcher
  /\ InitLine
  /\ plan \in [tail : SeqsUpTo(LogEvents, MaxPlan), poll : {<<>>}]
  /\ done = [tail |-> 0, poll |-> 0]

NextLog ==
  \/ tail_call
  \/ AggregatorOnly /\ release_lock("tail")
  \/ AggregatorOnly /\ snapshot("report")

SpecLog == InitLog /\ [][NextLog]_vars

\* SpecAge: the tail worker's sequence of SpecLog with the clock running and
\* the polling worker calling purge_expired, so that buckets leave the
\* retention window and are purged between the events
NextAge ==
  \/ Tick
  \/ tail_call
  \/ calls < MaxCalls /\ AggregatorOnly /\ purge_expired("poll", now)
  \/ AggregatorOnly /\ \E t \in {"tail", "poll"} : release_lock(t)

SpecAge == InitLog /\ [][NextAge]_vars

\* SpecLock: the tail worker and the polling worker each make a fixed sequence
\* of calls on the one aggregator, record_log_events on one side and
\* record_user_counters, record_ip_counters, purge_expired and snapshot on the
\* other, and both are scheduled fairly
LockEvents == {LogEvent(0, "u1", "ip1")}
LockPolls ==
  {[op |-> "user", timestamp |-> 0, counters |-> [e \in {"u1"} |-> <<1, 0>>]],
   [op |-> "ip", timestamp |-> 0, counters |-> [i \in {"ip1"} |-> 2]],
   [op |-> "purge", timestamp |-> 0, counters |-> EmptyMap],
   [op |-> "snapshot", timestamp |-> 0, counters |-> EmptyMap]}

InitLock ==
  /\ InitAggregator
  /\ InitWatcher
  /\ plan \in [tail : SeqsUpTo(LockEvents, MaxPlan), poll : SeqsUpTo(LockPolls, MaxPlan)]
  /\ done = [tail |-> 0, poll |-> 0]
  /\ InitLine

\* _command_collect_metrics, line 130: the next purge_expired call of the
\* polling worker
poll_purge_call ==
  /\ done.poll < Len(plan.poll)
  /\ plan.poll[done.poll + 1].op = "purge"
  /\ purge_expired("poll", plan.poll[done.poll + 1].timestamp)
  /\ done' = [done EXCEPT !.poll = @ + 1]
  /\ UNCHANGED <<watchVars, onceVars, plan, lineVars>>

\* _command_collect_metrics, line 140: the polling worker's thread enters
\* snapshot()
poll_snapshot_call ==
  /\ done.poll < Len(plan.poll)
  /\ plan.poll[done.poll + 1].op = "snapshot"
  /\ snapshot_begin("poll")
  /\ done' = [done EXCEPT !.poll = @ + 1]
  /\ UNCHANGED <<watchVars, onceVars, plan, lineVars>>

\* every step of the tail worker's thread
lock_tail_worker ==
  \/ tail_call
  \/ AggregatorOnly /\ release_lock("tail")

\* every step of the polling worker's thread
lock_poll_worker ==
  \/ poll_user_call
  \/ poll_ip_call
  \/ poll_purge_call
  \/ AggregatorOnly /\ release_lock("poll")
  \/ poll_snapshot_call
  \/ AggregatorOnly /\ snapshot_locked("poll")
  \/ AggregatorOnly /\ snapshot_unlock("poll")
  \/ AggregatorOnly /\ snapshot_distribute("poll")
  \/ AggregatorOnly /\ \E k \in IpKeys : snapshot_freeze_bytes("poll", k)
  \/ AggregatorOnly /\ snapshot_freeze_rest("poll")
  \/ AggregatorOnly /\ snapshot_return("poll")

NextLock ==
  \/ lock_tail_worker
  \/ lock_poll_worker

SpecLock ==
  InitLock /\ [][NextLock]_vars /\ WF_vars(lock_tail_worker) /\ WF_vars(lock_poll_worker)

\* ================================================================ claims
HasSnapshot == returned.generated_at >= 0
ReturnedUsers == {returned.users[i] : i \in 1..Len(returned.users)}
ReturnedIps == {returned.ips[i] : i \in 1..Len(returned.ips)}

\* the step in which snapshot() returns
SnapshotReturns == pc["report"] = "snap_freeze" /\ pc'["report"] = "idle"

\* C1 (snapshot idempotence): when a snapshot() returns after another one
\* with no record_* or purge_expired call since that one began, and with the
\* same purge cutoff, its user buckets and IP buckets equal the earlier ones.
C1_SnapshotIdempotent ==
  [][(SnapshotReturns /\ quiet >= 1 /\ returned'.cutoff_epoch = returned.cutoff_epoch)
       => (returned'.users = returned.users /\ returned'.ips = returned.ips)]_vars

\* the IP buckets of the returned snapshot that a user bucket's ip_breakdown names
NamedIpBuckets(u) ==
  {b \in ReturnedIps : b.bucket_start = u.bucket_start /\ b.ip \in DOMAIN u.ip_breakdown}

RECURSIVE SumBytesTotal(_)
SumBytesTotal(bs) ==
  IF bs = {} THEN 0
  ELSE LET b == CHOOSE x \in bs : TRUE
       IN b.bytes_total + SumBytesTotal(bs \ {b})

\* C2 (estimated bytes never exceed the user total): in the returned snapshot,
\* for every user bucket with positive bytes and connections whose IPs are
\* used by no other user in that bucket and carry no measured bytes, the
\* bytes_total of the IP buckets of its ip_breakdown sum to at most
\* up_bytes + down_bytes.
C2_EstimateWithinUserTotal ==
  \A u \in ReturnedUsers :
    (/\ u.up_bytes + u.down_bytes > 0
     /\ u.conn_total > 0
     /\ \A b \in NamedIpBuckets(u) :
          DOMAIN b.users \subseteq {u.email} /\ b.byte_source = "estimated")
    => SumBytesTotal(NamedIpBuckets(u)) <= u.up_bytes + u.down_bytes

\* C3 (snapshot atomic with respect to record_*): the returned snapshot shows
\* one state of the aggregator: its user and IP buckets count the same events
\* (users[email] of an IP bucket equals ip_breakdown[ip] of the user bucket of
\* the same time bucket, both ways), and an IP bucket reported as "measured"
\* carries the measured byte count, which is positive.
C3_SnapshotAtomic ==
  /\ \A u \in ReturnedUsers : \A ip \in (DOMAIN u.ip_breakdown) \ {""} :
       \E b \in ReturnedIps :
         /\ b.ip = ip /\ b.bucket_start = u.bucket_start
         /\ Get(b.users, u.email) = u.ip_breakdown[ip]
  /\ \A b \in ReturnedIps : \A email \in DOMAIN b.users :
       \E u \in ReturnedUsers :
         /\ u.email = email /\ u.bucket_start = b.bucket_start
         /\ Get(u.ip_breakdown, b.ip) = b.users[email]
  /\ \A b \in ReturnedIps : b.byte_source = "measured" => b.bytes_total > 0

\* C4 (lock discipline): a step that changes a stored user bucket, a stored
\* IP bucket or the baseline map is taken by a thread that holds the
\* aggregator lock while it does so.
C4_LockDiscipline ==
  [][(user_state' # user_state \/ ip_state' # ip_state \/ user_totals' # user_totals)
       => \E t \in Threads : pc'[t] # pc[t] /\ lock' = t]_vars

\* C10 (record_ip_counters marks the bucket as measured): every IP bucket of
\* the returned snapshot that record_ip_counters had touched before the
\* snapshot copied it reports byte_source = "measured".
C10_PolledIsMeasured ==
  \A b \in ReturnedIps :
    <<b.ip, b.bucket_start>> \in returned.polled => b.byte_source = "measured"

\* ---- polls
\* the step in which the body of record_user_counters runs
PollStep == calls' = calls + 1 /\ lastOp'.kind = "record_user_counters"

UpBytes(us, k) == IF k \in DOMAIN us THEN us[k].up_bytes ELSE 0
DownBytes(us, k) == IF k \in DOMAIN us THEN us[k].down_bytes ELSE 0

\* the start of the time bucket a timestamp falls in
BucketOf(ts) ==
  CHOOSE b \in 0..ts : b % BucketSeconds = 0 /\ b <= ts /\ ts < b + BucketSeconds

\* C5 (counter-reset delta): when a poll reports for an email an uplink
\* (downlink) below the one of that email's previous poll, the up_bytes
\* (down_bytes) of the user bucket of the poll's timestamp grow by exactly the
\* reported value; and no poll makes up_bytes or down_bytes of any bucket
\* smaller.
C5_CounterResetDelta ==
  [][PollStep =>
       LET c == lastOp'.counters
           bucket == BucketOf(lastOp'.timestamp)
       IN /\ \A e \in (DOMAIN c) \cap (DOMAIN h_reported) :
               /\ c[e][1] < h_reported[e][1] =>
                    UpBytes(user_state', <<e, bucket>>)
                      = UpBytes(user_state, <<e, bucket>>) + c[e][1]
               /\ c[e][2] < h_reported[e][2] =>
                    DownBytes(user_state', <<e, bucket>>)
                      = DownBytes(user_state, <<e, bucket>>) + c[e][2]
          /\ \A k \in (DOMAIN user_state) \cup (DOMAIN user_state') :
               /\ UpBytes(user_state', k) >= UpBytes(user_state, k)
               /\ DownBytes(user_state', k) >= DownBytes(user_state, k)]_vars

\* a poll has just reported a positive uplink below the previous one, and the
\* bucket of its timestamp holds the bytes
C5_Witness ==
  /\ lastOp.kind = "record_user_counters"
  /\ \E e \in (DOMAIN lastOp.counters) \cap (DOMAIN lastOp.before) :
       /\ lastOp.counters[e][1] < lastOp.before[e][1]
       /\ lastOp.counters[e][1] > 0
       /\ UpBytes(user_state, <<e, BucketOf(lastOp.timestamp)>>) >= lastOp.counters[e][1]

\* C6 (first poll seeds the baseline): the first poll that mentions an email
\* changes up_bytes and down_bytes of none of that email's buckets, and the
\* baseline of the email becomes the reported pair.
C6_FirstPollSeedsBaseline ==
  [][PollStep =>
       \A e \in (DOMAIN lastOp'.counters) \ (DOMAIN h_reported) :
         /\ \A k \in (DOMAIN user_state) \cup (DOMAIN user_state') :
              k[1] = e => /\ UpBytes(user_state', k) = UpBytes(user_state, k)
                          /\ DownBytes(user_state', k) = DownBytes(user_state, k)
         /\ e \in DOMAIN user_totals'
         /\ user_totals'[e] = lastOp'.counters[e]]_vars

\* a first poll has just reported positive counters for an email
C6_Witness ==
  /\ lastOp.kind = "record_user_counters"
  /\ \E e \in (DOMAIN lastOp.counters) \ (DOMAIN lastOp.before) :
       lastOp.counters[e][1] > 0 /\ user_totals[e] = lastOp.counters[e]

\* the delta rule of the design: a value below the previous one is a reset
DeltaRule(current, prev) == IF current >= prev THEN current - prev ELSE current

\* both deltas of every email a poll reports are zero, given the pairs of the
\* previous polls (a first poll has a zero delta)
IdlePoll(c, before) ==
  \A e \in DOMAIN c :
    e \in DOMAIN before =>
      DeltaRule(c[e][1], before[e][1]) = 0 /\ DeltaRule(c[e][2], before[e][2]) = 0

\* C7 (idle polls create nothing): a poll whose deltas are all zero leaves the
\* user buckets and the IP buckets, their key sets and their contents, as they
\* were.
C7_IdlePollCreatesNothing ==
  [][(PollStep /\ IdlePoll(lastOp'.counters, h_reported))
       => (user_state' = user_state /\ ip_state' = ip_state)]_vars

\* an idle poll has just run for an email polled before, with buckets stored
C7_Witness ==
  /\ lastOp.kind = "record_user_counters"
  /\ IdlePoll(lastOp.counters, lastOp.before)
  /\ (DOMAIN lastOp.counters) \cap (DOMAIN lastOp.before) # {}
  /\ DOMAIN user_state # {}

\* ---- purge
StoredKeys == (DOMAIN user_state) \cup (DOMAIN ip_state)
SnapshotBuckets(s) ==
  {s.users[i] : i \in 1..Len(s.users)} \cup {s.ips[i] : i \in 1..Len(s.ips)}

\* bucket_start + bucket_width + retention < T
AgedOut(bucket_start, T) == bucket_start + BucketSeconds + Retention < T

\* C8 (expired buckets disappear): after purge_expired(T), or the purge of a
\* snapshot() taken at T, no user or IP bucket with bucket_start +
\* bucket_width + retention < T is stored; a snapshot generated at T holds no
\* such bucket; and neither does the next snapshot.
C8_ExpiredBucketsDisappear ==
  /\ [](lastOp.kind \in {"purge_expired", "snapshot"} =>
          \A k \in StoredKeys : ~AgedOut(k[2], lastOp.as_of))
  /\ [](\A b \in SnapshotBuckets(returned) :
          ~AgedOut(b.bucket_start, returned.generated_at))
  /\ [][SnapshotReturns =>
          \A b \in SnapshotBuckets(returned') :
            ~AgedOut(b.bucket_start, returned.generated_at)]_vars

\* a snapshot() has returned whose purge met a user bucket that had aged out
C8_Witness ==
  /\ lastOp.kind = "snapshot"
  /\ returned.generated_at = lastOp.as_of
  /\ \E k \in lastOp.users_before : AgedOut(k[2], lastOp.as_of)

\* C9, as claimed: after purge_expired(as_of) no bucket with
\* bucket_start < as_of - retention is stored.
C9_NoBucketOlderThanCutoff ==
  lastOp.kind = "purge_expired" =>
    \A k \in StoredKeys : ~(k[2] < lastOp.as_of - Retention)

\* C9, amended: after purge_expired(as_of) no bucket that ended at or before
\* as_of - retention (bucket_start + bucket_width <= as_of - retention) is
\* stored.
C9_NoBucketEndedBeforeCutoff ==
  lastOp.kind = "purge_expired" =>
    \A k \in StoredKeys : ~(k[2] + BucketSeconds <= lastOp.as_of - Retention)

\* purge_expired has just deleted a bucket that ended before the cutoff
C9_Witness ==
  /\ lastOp.kind = "purge_expired"
  /\ \E k \in lastOp.users_before \cup lastOp.ips_before :
       k[2] + BucketSeconds <= lastOp.as_of - Retention /\ k \notin StoredKeys

\* ---- freeze
\* the step in which the freeze() of one IP bucket ends
FreezeEnds == pc["report"] = "snap_freeze_rest" /\ pc'["report"] = "snap_freeze"

\* C11 (freeze rule for IP buckets): when the freeze() of an IP bucket of a
\* snapshot ends, a bucket with measured bytes recorded is reported as
\* "measured" with bytes_total equal to the sum of the clamped measured
\* values, and a bucket with none is reported as "estimated" with bytes_total
\* equal to the share the snapshot's user buckets give it.
C11_FreezeRule ==
  [][FreezeEnds =>
       LET k == snap.partial[1]
           stored == CopyObj(k)
           b == snap'.ip_buckets[k]
       IN IF stored.measured_bytes > 0
          THEN b.byte_source = "measured" /\ b.bytes_total = stored.measured_bytes
          ELSE /\ b.byte_source = "estimated"
               /\ b.bytes_total = estimated_bytes_added(snap.user_buckets, k)]_vars

\* ---- interleaving
\* the stored state of the aggregator
Stored == [users |-> user_state, ips |-> ip_state, totals |-> user_totals]

\* the stored state after one record_log_events([ev])
AfterEvent(st, ev) ==
  [st EXCEPT !.users = log_user(@, ev, bucket_epoch(ev.timestamp)),
             !.ips = log_ip(@, ev, bucket_epoch(ev.timestamp))]

\* the stored state after one record_user_counters or record_ip_counters call
AfterPoll(st, c) ==
  IF c.op = "user"
  THEN [st EXCEPT !.users = record_users(st.users, st.totals, bucket_epoch(c.timestamp),
                                         c.counters, DOMAIN c.counters),
                  !.totals = update_totals(@, c.counters)]
  ELSE [st EXCEPT !.ips = record_ips(@, bucket_epoch(c.timestamp), c.counters,
                                     DOMAIN c.counters)]

RECURSIVE AfterEvents(_, _)
AfterEvents(st, evs) ==
  IF evs = <<>> THEN st ELSE AfterEvents(AfterEvent(st, Head(evs)), Tail(evs))

RECURSIVE AfterPolls(_, _)
AfterPolls(st, cs) ==
  IF cs = <<>> THEN st ELSE AfterPolls(AfterPoll(st, Head(cs)), Tail(cs))

\* the state one serial order leaves: the tail worker's first n calls, then
\* the polling worker's first m calls
Serial(n, m) ==
  AfterPolls(AfterEvents([users |-> EmptyMap, ips |-> EmptyMap, totals |-> EmptyMap],
                         SubSeq(plan.tail, 1, n)),
             SubSeq(plan.poll, 1, m))

\* C12 (interleaving across workers is safe): however the calls of the two
\* workers made so far were interleaved, the user buckets, IP buckets and
\* baselines stored are those left by the tail worker's calls followed by the
\* polling worker's calls; so every interleaving of the two full sequences
\* ends in the same state.
C12_InterleavingSafe == Stored = Serial(done.tail, done.poll)

\* both workers have finished their sequences, the tail worker last, and a
\* user bucket holds both polled bytes and logged connections
C12_Witness ==
  /\ done.tail = Len(plan.tail) /\ done.tail >= 1
  /\ done.poll = Len(plan.poll) /\ done.poll >= 1
  /\ lastOp.kind = "record_log_events"
  /\ \E k \in DOMAIN user_state :
       user_state[k].up_bytes > 0 /\ user_state[k].conn_total > 0

\* ---- tailing
TailEnded == tail_pc \in {"done", "crashed"}

\* C13 (tailing tolerates concurrent appends): whatever the other process has
\* written so far, the text stream() hands to _parse_line is one whole line,
\* never the head or the tail of a line written in several writes.
C13_WholeLinesOnly == tail_pc = "parse" => line.portion = "whole"

\* C14 (stream cancellation): once the signal is set stream() makes at most
\* one more read attempt, the one in progress, and so yields at most one more
\* event; and with both threads scheduled fairly the tail worker's stream ends.
C14_StreamCancellation ==
  /\ [](h_reads <= 1)
  /\ stop_event ~> TailEnded

\* the signal was set while a read was about to be made, the read was made
\* and yielded an event, and the stream has ended
C14_Witness ==
  /\ stop_event
  /\ h_stop_at = "read"
  /\ h_reads = 1
  /\ h_yielded # <<>>
  /\ h_yielded[Len(h_yielded)][2] = handle
  /\ tail_pc = "done"

\* C15 (cancellation reaches both workers): with the signal set, whoever set
\* it, the polling worker starts no further poll cycle and the tail worker
\* makes no read attempt beyond the one in progress.
C15_CancellationReachesBoth ==
  [][stop_event => (~(main_pc = "loop" /\ main_pc' = "poll") /\ h_reads' <= 1)]_vars

HistoryEvents ==
  {<<o, o + 1>> : o \in {x \in 0..(h_open - 1) :
     /\ file[x + 1].part = "whole"
     /\ parse_line([kind |-> file[x + 1].kind, portion |-> "whole", ts |-> 0],
                   source.is_json, 0).kind = "event"}}

\* C20 (follow mode skips history): with follow set, every yielded event comes
\* from text written after stream() opened the file; with follow unset, an
\* event from text written later is yielded only after every line that was in
\* the file at the open and parses to an event; in both modes events are
\* yielded in file order.
C20_FollowSkipsHistory ==
  /\ \A i \in 1..Len(h_yielded) :
       /\ source.follow => h_yielded[i][1] >= h_open
       /\ (~source.follow /\ h_yielded[i][2] > h_open) =>
            HistoryEvents \subseteq {h_yielded[j] : j \in 1..(i - 1)}
       /\ \A j \in 1..(i - 1) : h_yielded[j][2] <= h_yielded[i][1]
  /\ (~source.follow /\ tail_pc = "eof") =>
       HistoryEvents \subseteq {h_yielded[j] : j \in 1..Len(h_yielded)}

\* with follow set, the file held a line at the open and an event of a line
\* appended later has been yielded
C20_Witness ==
  /\ source.follow
  /\ h_open >= 1
  /\ HistoryEvents # {}
  /\ h_yielded # <<>>

\* ---- reading the file once
\* C17 (a malformed line is never fatal): whatever lines the file holds, in
\* either format mode, XrayLogWatcher.snapshot raises nothing but the error
\* of a missing file: every line parses to an event or to nothing and the
\* lines after it are processed.
C17_MalformedNeverFatal == result.status \in {"none", "ok", "FileNotFoundError"}

\* C18 (a missing log file is an explicit failure): when the path does not
\* exist, snapshot() raises FileNotFoundError instead of returning a list,
\* stream() does not get past its open, and the tail worker ends only after
\* setting the cancellation signal.
C18_MissingFileIsExplicit ==
  ~exists =>
    /\ result.status \in {"none", "FileNotFoundError"}
    /\ tail_pc \in {"start", "except", "done"}
    /\ h_yielded = <<>>
    /\ tail_pc = "done" => stop_event

\* on a missing path snapshot() has raised, and the tail worker has caught the
\* error of stream() and set the signal
C18_Witness ==
  /\ ~exists
  /\ result.status = "FileNotFoundError"
  /\ tail_pc = "done"
  /\ stop_event

\* C19 (snapshot(limit) is bounded by limit): for every limit >= 0, zero
\* included, a snapshot(limit) that returns gives at most `limit` events, and
\* they are the events of the last `limit` lines of the file in file order.
C19_LimitBoundsSnapshot ==
  (result.status = "ok" /\ limit >= 0) =>
    /\ Len(result.events) <= limit
    /\ LET lines == readlines(file, 0)
           last == SubSeq(lines, Max(0, Len(lines) - limit) + 1, Len(lines))
       IN result = parse_lines(last, source.is_json, now)

\* -------------------------------------------------- claims: the normaliser
Emitted == out.kind = "parsed" /\ out.result.kind = "event"

\* the string names a loopback address: 127.x, ::1 bare or in brackets, or
\* localhost in any case
NamesLoopback(s) ==
  \/ "127.0.0.1" \in Range(s)
  \/ "localhost" \in Range(LowerStr(s))
  \/ \E i \in 1..(Len(s) - 2) : SubSeq(s, i, i + 2) = <<":", ":", "1">>

\* the detour (or, without one, the tag) of the line contains "api"
ApiLabel(ln) ==
  LET label == IF ln.form = "text" THEN Str(ln.detour)
               ELSE Or(ln.fields["detour"], ln.fields["tag"])
  IN label.t = "str" /\ "api" \in Range(LowerStr(label.s))

\* the target, the source address or the ip of the line is a loopback address
LoopbackParty(ln) ==
  IF ln.form = "text" THEN NamesLoopback(ln.target) \/ NamesLoopback(ln.source)
  ELSE \E k \in {"target", "source", "ip"} :
         ln.fields[k].t = "str" /\ NamesLoopback(ln.fields[k].s)

\* C21 (internal-loopback filter): under either parse strategy no event is
\* emitted for a line whose detour or tag contains "api" in any case and whose
\* target host, source address or ip is a loopback address (127.x, ::1 bare or
\* in brackets, localhost in any case).
C21_LoopbackFiltered ==
  (out.kind = "parsed" /\ arg.form \in {"text", "json"}
     /\ ApiLabel(arg) /\ LoopbackParty(arg))
    => out.result.kind # "event"


\* C22 (parse dispatch and fallback order): for a non-blank line, in free-text
\* mode the result is the grammar parse when a line grammar matches, otherwise
\* the structured normalisation when the line is a JSON object, otherwise one
\* raw-only event; in structured mode a line that fails JSON decoding yields
\* no event, never a raw-only one.
C22_ParseDispatch ==
  (out.kind = "parsed" /\ arg.form # "blank")
    => IF out.is_json
       THEN arg.form \in {"text", "garbage"} => out.result = Nothing
       ELSE CASE arg.form = "text" -> out.result = parse_text_line(arg)
              [] arg.form = "json" -> out.result = normalise_record_fields(arg)
              [] OTHER -> out.result = raw_event

\* the target string was split
Split == out.kind = "split"
SplitParts == [transport |-> arg.transport, host |-> arg.host, port |-> arg.port]

\* C23 as stated (split_target round trip): for every transport, every host
\* (a colon-free name or a bracketed IPv6 literal) and every optional port,
\* splitting "[transport:]host[:port]" returns exactly that transport, host
\* and port.
C23_SplitRoundTrip == Split => out.fields = SplitParts

\* a bare host named like a transport, followed by a port: "tcp:443"
ReadsAsPrefix ==
  arg.transport = <<>> /\ arg.host \in {<<"tcp">>, <<"udp">>, <<"unix">>}
    /\ arg.port # NoPort

\* C23 as amended: the round trip holds for every transport, host and optional
\* port but a host named tcp, udp or unix written with a port and without a
\* transport; port 0 comes back as 0 and a missing port as no port.
C23_SplitRoundTripUnambiguous == (Split /\ ~ReadsAsPrefix) => out.fields = SplitParts

\* a bracketed IPv6 host with port 0 behind a transport has been split
C23_Witness ==
  Split /\ arg.bracketed /\ arg.port = 0 /\ arg.transport = <<"udp">>
    /\ out.fields = SplitParts

\* a key of the top level holds an int or a string of digits
Numeric(v) == v.t \in {"int", "bool"} \/ (v.t = "str" /\ IsDigit(v.s))
NumericValue(v) == IF v.t = "str" THEN ToInt(v.s) ELSE v.n

\* the counter the lookup order names: the first candidate key of the top
\* level that holds a number, else the first one of the nested traffic object
FirstNumeric(fields, keys) ==
  LET i == CHOOSE x \in 1..Len(keys) :
             Numeric(fields[keys[x]]) /\ \A y \in 1..(x - 1) : ~Numeric(fields[keys[y]])
  IN NumericValue(fields[keys[i]])
HasNumeric(fields, keys) == \E i \in 1..Len(keys) : Numeric(fields[keys[i]])
Counter(record, keys) ==
  IF HasNumeric(record.fields, keys) THEN FirstNumeric(record.fields, keys)
  ELSE IF record.traffic_is_dict /\ HasNumeric(record.traffic, keys)
       THEN FirstNumeric(record.traffic, keys)
  ELSE 0

\* C24 (structured traffic lookup order): bytes_read (bytes_written) is the
\* value of the first uplink (downlink) candidate key present at the top level
\* with a numeric or numeric-string value, 0 included; the nested traffic
\* object counts only when the top level has no such key.
C24_TrafficLookupOrder ==
  (Emitted /\ arg.form = "json")
    => /\ out.result.event.bytes_read = Counter(arg, uplink_keys)
       /\ out.result.event.bytes_written = Counter(arg, downlink_keys)

\* C25 (event field ranges): every emitted event has bytes_read >= 0,
\* bytes_written >= 0 and a target_port that is absent or an integer >= 0.
C25_EventFieldRanges ==
  Emitted
    => /\ out.result.event.bytes_read >= 0
       /\ out.result.event.bytes_written >= 0
       /\ (out.result.event.target_port = NoPort \/ out.result.event.target_port >= 0)


\* ------------------------------------------------ claims: recorded events
\* the events record_log_events has taken so far, by their place in the sequence
RecordedFor(email, bucket_start) ==
  {i \in 1..done.tail : /\ plan.tail[i].email = email
                        /\ BucketOf(plan.tail[i].timestamp) = bucket_start}

\* the frozen user bucket counts the addresses of its recorded events
CountsAddresses(b) ==
  LET mine == RecordedFor(b.email, b.bucket_start)
  IN /\ b.unique_ips = Cardinality({plan.tail[i].ip : i \in mine} \ {""})
     /\ b.conn_total = Cardinality(mine)
     /\ \A ip \in Ips \cup {""} :
          Get(b.ip_breakdown, ip) = Cardinality({i \in mine : plan.tail[i].ip = ip})

\* C26 (unique_ips counts distinct non-empty addresses): a user bucket's
\* unique_ips is the number of distinct non-empty IPs among the recorded events
\* of its email and time bucket; events with an empty IP count toward
\* conn_total and ip_breakdown only; events with an empty email touch no user
\* bucket. It holds of every stored bucket as a snapshot would freeze it and
\* of the buckets a snapshot froze under the lock.
C26_UniqueIps ==
  /\ \A k \in DOMAIN user_state :
       k[1] # "" /\ CountsAddresses(freeze_user(user_state[k]))
  /\ \A i \in 1..done.tail :
       plan.tail[i].email # ""
         => <<plan.tail[i].email, BucketOf(plan.tail[i].timestamp)>> \in DOMAIN user_state
  /\ lock = "report"
       => \A k \in DOMAIN snap.user_buckets : CountsAddresses(snap.user_buckets[k])

\* a snapshot froze, under the lock, a bucket of two events of which one has
\* no address
C26_Witness ==
  /\ lock = "report"
  /\ \E k \in DOMAIN snap.user_buckets :
       /\ snap.user_buckets[k].unique_ips = 1
       /\ snap.user_buckets[k].conn_total = 2
       /\ Get(snap.user_buckets[k].ip_breakdown, "") = 1


\* the step in which record_log_events takes the next event of the sequence
Records == done'.tail = done.tail + 1
NextEvent == plan.tail[done.tail + 1]
NextIpKey == <<NextEvent.ip, BucketOf(NextEvent.timestamp)>>

IpConn(ips, k) == IF k \in DOMAIN ips THEN ips[k].conn_total ELSE 0
IpUsers(ips, k) == IF k \in DOMAIN ips THEN ips[k].users ELSE EmptyMap
IpHosts(ips, k) == IF k \in DOMAIN ips THEN ips[k].host_counts ELSE EmptyMap

\* the IP bucket of the event gains one connection and one on its host entry,
\* no other entry of it and no other stored IP bucket changes
CountsConnection ==
  /\ IpConn(ip_state', NextIpKey) = IpConn(ip_state, NextIpKey) + 1
  /\ IpHosts(ip_state', NextIpKey) = Incr(IpHosts(ip_state, NextIpKey), HostLabel(NextEvent))
  /\ DOMAIN ip_state' = DOMAIN ip_state \cup {NextIpKey}
  /\ \A k \in DOMAIN ip_state : k # NextIpKey => ip_state'[k] = ip_state[k]

\* C27 as stated (IP buckets count every event with an IP): for every recorded
\* event with a non-empty IP, whether or not its email is empty, the IP
\* bucket's conn_total, its per-email breakdown entry for the event's email and
\* its host_breakdown entry each grow by exactly one; an event with an empty
\* IP creates or changes no stored IP bucket.
C27_IpBucketCounts ==
  [][Records =>
       IF NextEvent.ip = "" THEN ip_state' = ip_state
       ELSE /\ CountsConnection
            /\ IpUsers(ip_state', NextIpKey)
                 = Incr(IpUsers(ip_state, NextIpKey), NextEvent.email)]_vars

\* C27 as amended: the per-email breakdown entry grows by one when the event
\* has an email; an event without one adds no entry to the breakdown.
C27_IpBucketCountsNamedUsers ==
  [][Records =>
       IF NextEvent.ip = "" THEN ip_state' = ip_state
       ELSE /\ CountsConnection
            /\ IpUsers(ip_state', NextIpKey)
                 = IF NextEvent.email # ""
                   THEN Incr(IpUsers(ip_state, NextIpKey), NextEvent.email)
                   ELSE IpUsers(ip_state, NextIpKey)]_vars

\* an event with an address and no email has been counted in an IP bucket
\* that a named user's event had created
C27_Witness ==
  /\ lastOp.kind = "record_log_events"
  /\ lastOp.event.email = "" /\ lastOp.event.ip # ""
  /\ LET k == <<lastOp.event.ip, BucketOf(lastOp.event.timestamp)>>
     IN k \in DOMAIN ip_state /\ ip_state[k].conn_total = 2
          /\ SumMap(ip_state[k].users) = 1


\* the rejects of the frozen bucket are its recorded events of these statuses
CountsRejects(b, rejected) ==
  b.rejects = Cardinality({i \in RecordedFor(b.email, b.bucket_start) :
                             plan.tail[i].status \in rejected})

LogStatuses == {ev.status : ev \in LogEvents}
NotAccepted == {status \in LogStatuses : Lower(status) # "accepted"}
NamedNotAccepted == NotAccepted \ {""}

\* C28 as stated (rejects counts non-accepted events): a user bucket's rejects
\* is the number of recorded events of its email and time bucket whose status
\* is not "accepted", whatever the status is ("rejected", a provider's own
\* word, or empty).
C28_Rejects ==
  /\ \A k \in DOMAIN user_state : CountsRejects(freeze_user(user_state[k]), NotAccepted)
  /\ lock = "report"
       => \A k \in DOMAIN snap.user_buckets :
            CountsRejects(snap.user_buckets[k], NotAccepted)

\* C28 as amended: rejects is the number of recorded events of the bucket
\* whose status is non-empty and, in lower case, not "accepted"; an event
\* without a status is not a reject.
C28_RejectsOfNamedStatus ==
  /\ \A k \in DOMAIN user_state :
       CountsRejects(freeze_user(user_state[k]), NamedNotAccepted)
  /\ lock = "report"
       => \A k \in DOMAIN snap.user_buckets :
            CountsRejects(snap.user_buckets[k], NamedNotAccepted)

\* a snapshot froze a bucket of a rejected event and an event without status
C28_Witness ==
  /\ lock = "report"
  /\ \E k \in DOMAIN snap.user_buckets :
       /\ snap.user_buckets[k].rejects = 1
       /\ snap.user_buckets[k].conn_total = 2
       /\ \E i \in RecordedFor(k[1], k[2]) : plan.tail[i].status = ""


\* ---------------------------------------------------- claims: bucketing
\* the user buckets and the IP buckets a step created or changed
TouchedUsers ==
  {k \in DOMAIN user_state' : k \notin DOMAIN user_state \/ user_state'[k] # user_state[k]}
TouchedIps ==
  {k \in DOMAIN ip_state' : k \notin DOMAIN ip_state \/ ip_state'[k] # ip_state[k]}

\* a record_* body ran in this step
RecordsLog == calls' = calls + 1 /\ lastOp'.kind = "record_log_events"
RecordsPoll == calls' = calls + 1 /\ lastOp'.kind = "record_user_counters"

\* C29 (epoch-aligned bucketing): an event or a poll of timestamp t lands in
\* the one bucket whose start is the largest multiple of the bucket width that
\* is at most t, whatever was recorded before it; every stored bucket starts
\* on a multiple of the width.
C29_EpochAligned ==
  [][/\ RecordsLog =>
          LET ev == lastOp'.event
              start == BucketOf(ev.timestamp)
          IN /\ TouchedUsers = {<<ev.email, start>>}
             /\ TouchedIps = {<<ev.ip, start>>}
             /\ user_state'[<<ev.email, start>>].bucket_epoch = start
             /\ ip_state'[<<ev.ip, start>>].bucket_epoch = start
     /\ RecordsPoll =>
          /\ TouchedUsers \subseteq
               {<<e, BucketOf(lastOp'.timestamp)>> : e \in DOMAIN lastOp'.counters}
          /\ \A k \in TouchedUsers : user_state'[k].bucket_epoch = k[2]
     /\ \A k \in DOMAIN user_state' : k[2] % BucketSeconds = 0
     /\ \A k \in DOMAIN ip_state' : k[2] % BucketSeconds = 0]_vars

\* an event stamped one second into the second bucket was put in that bucket
C29_Witness ==
  /\ lastOp.kind = "record_log_events"
  /\ lastOp.event.timestamp = BucketSeconds + 1
  /\ <<"u1", BucketSeconds>> \in DOMAIN user_state
  /\ user_state[<<"u1", BucketSeconds>>].conn_total = 1


\* ---------------------------------------------------- claims: snapshots
\* what the holder of the returned snapshot reads from it
Held == read_snapshot(returned, user_state, ip_state)

ComesBefore(start_a, name_a, start_b, name_b) ==
  start_a < start_b \/ (start_a = start_b /\ StrRank[name_a] < StrRank[name_b])

\* C31 (deterministic snapshot order): in every returned snapshot the user
\* buckets are strictly increasing by (bucket_start, email) and the IP buckets
\* strictly increasing by (bucket_start, ip); so no (email, bucket_start) and
\* no (ip, bucket_start) appears twice.
C31_SnapshotOrder ==
  /\ \A i, j \in 1..Len(returned.users) :
       i < j => ComesBefore(returned.users[i].bucket_start, returned.users[i].email,
                            returned.users[j].bucket_start, returned.users[j].email)
  /\ \A i, j \in 1..Len(returned.ips) :
       i < j => ComesBefore(returned.ips[i].bucket_start, returned.ips[i].ip,
                            returned.ips[j].bucket_start, returned.ips[j].ip)

\* a snapshot has returned two user buckets and two IP buckets whose order by
\* time is the reverse of their order by name
C31_Witness ==
  /\ HasSnapshot
  /\ \E i, j \in 1..Len(returned.users) :
       /\ i < j
       /\ StrRank[returned.users[i].email] > StrRank[returned.users[j].email]
  /\ \E i, j \in 1..Len(returned.ips) :
       /\ i < j
       /\ StrRank[returned.ips[i].ip] > StrRank[returned.ips[j].ip]



\* ---------------------------------------------------- claims: what the filter keeps
\* the parse strategy in use turns the line into an event: a JSON object under
\* either strategy, a line that matches a line grammar under the free-text one
ParsesToEvent ==
  out.kind = "parsed" /\ (arg.form = "json" \/ (arg.form = "text" /\ ~out.is_json))

\* C32 (the loopback filter drops nothing else): under either parse strategy
\* a line that parses to an event is emitted when its detour/tag does not
\* contain "api", whatever its addresses, and when its detour/tag contains
\* "api" but neither the target host, the source address nor the ip is a
\* loopback address.
C32_FilterDropsNothingElse ==
  (ParsesToEvent /\ (~ApiLabel(arg) \/ ~LoopbackParty(arg))) => Emitted

\* an event was emitted for a JSON object tagged "api" whose addresses are not
\* loopback ones
C32_Witness ==
  /\ ParsesToEvent /\ Emitted
  /\ ApiLabel(arg) /\ ~LoopbackParty(arg)
  /\ arg.form = "json"
  /\ out.result.event.ip = <<"10.0.0.1">>
  /\ out.result.event.target_host = <<"10.0.0.1">>



\* ---------------------------------------------------- claims: delivery order
\* the offset stream() started reading at, and the offset up to which it has
\* dealt with every line
StartOffset == IF source.follow THEN h_open ELSE 0
DealtWith == IF tail_pc = "parse" THEN position ELSE handle

\* the offsets of the lines dealt with that _parse_line turns into an event
EventOffsets ==
  {o \in StartOffset..(DealtWith - 1) :
     parse_line([kind |-> file[o + 1].kind, portion |-> "whole", ts |-> file[o + 1].ts],
                source.is_json, now).kind = "event"}

\* the event of the line at an offset
EventAt(o) ==
  parse_line([kind |-> file[o + 1].kind, portion |-> "whole", ts |-> file[o + 1].ts],
             source.is_json, now).event

\* the step in which the tail worker passes an event to the aggregator
HandsOver == h_recorded' = h_recorded + 1

\* C33 (in-order, exactly-once delivery): while the log grows by whole lines
\* only, the events stream() has yielded so far are those of the non-filtered
\* lines between its start offset and the offset it has read up to, one event
\* per line and in file order, however often it waited at the end of the file
\* and sought back; and the k-th call of record_log_events made by the tail
\* worker passes the k-th event yielded.
C33_InOrderExactlyOnce ==
  /\ [](tail_pc # "start" =>
          /\ Len(h_yielded) = Cardinality(EventOffsets)
          /\ \A i \in 1..Len(h_yielded) :
               /\ h_yielded[i][1] \in EventOffsets
               /\ h_yielded[i][2] = h_yielded[i][1] + 1
               /\ \A j \in 1..(i - 1) : h_yielded[j][1] < h_yielded[i][1])
  /\ [][HandsOver =>
          /\ h_recorded' <= Len(h_yielded)
          /\ lastOp'.event = EventAt(h_yielded[h_recorded'][1])]_vars

\* reading from the start, the stream yielded the line the file held at the
\* open, then skipped an appended blank line and yielded the line appended
\* after it, and both events were recorded in that order
C33_Witness ==
  /\ ~source.follow /\ source.is_json
  /\ h_open = 1
  /\ Len(file) = 3
  /\ file[2].kind = "blank"
  /\ h_yielded = <<<<0, 1>>, <<2, 3>>>>
  /\ h_recorded = 2
  /\ lastOp.kind = "record_log_events"
  /\ lastOp.event.timestamp = 2


\* ---------------------------------------------------- claims: the baseline
\* the record_user_counters calls made so far that reported the email, by
\* their place in the polling worker's sequence
PollsOf(e) ==
  {i \in 1..done.poll :
     plan.poll[i].op = "user" /\ e \in DOMAIN plan.poll[i].counters}
FirstPoll(e) == CHOOSE i \in PollsOf(e) : \A j \in PollsOf(e) : i <= j
LastPoll(e) == CHOOSE i \in PollsOf(e) : \A j \in PollsOf(e) : j <= i
Reported(e, i) == plan.poll[i].counters[e]

\* neither counter of the email went down from one of its polls to a later one
NonDecreasing(e) ==
  \A i, j \in PollsOf(e) :
    i < j => /\ Reported(e, i)[1] <= Reported(e, j)[1]
             /\ Reported(e, i)[2] <= Reported(e, j)[2]

\* up_bytes (col 1) or down_bytes (col 2) summed over the buckets with keys ks
RECURSIVE BytesOver(_, _)
BytesOver(ks, col) ==
  IF ks = {} THEN 0
  ELSE LET k == CHOOSE x \in ks : TRUE
       IN (IF col = 1 THEN user_state[k].up_bytes ELSE user_state[k].down_bytes)
            + BytesOver(ks \ {k}, col)

BucketsOfEmail(e) == {k \in DOMAIN user_state : k[1] = e}

\* C34 (the baseline tracks the latest poll): after every record_user_counters
\* call the stored baseline of each email it reported is the pair just
\* reported, also when both deltas were zero or a counter had gone down; and
\* when the counters of an email never went down over its polls (none of its
\* buckets was purged), up_bytes and down_bytes summed over the email's
\* buckets equal the last reported value minus the first.
C34_BaselineTracksLatestPoll ==
  \A e \in Emails :
    PollsOf(e) # {} =>
      /\ e \in DOMAIN user_totals
      /\ user_totals[e] = Reported(e, LastPoll(e))
      /\ NonDecreasing(e) =>
           \A col \in {1, 2} :
             BytesOver(BucketsOfEmail(e), col)
               = Reported(e, LastPoll(e))[col] - Reported(e, FirstPoll(e))[col]

\* two polls of one email in different time buckets, the second with larger
\* counters, and the email's buckets hold the difference
C34_Witness ==
  /\ Cardinality(PollsOf("u1")) = 2
  /\ NonDecreasing("u1")
  /\ plan.poll[FirstPoll("u1")].timestamp # plan.poll[LastPoll("u1")].timestamp
  /\ Reported("u1", LastPoll("u1"))[1] > Reported("u1", FirstPoll("u1"))[1]
  /\ BytesOver(BucketsOfEmail("u1"), 1) = MaxCounter - 1
  /\ user_totals["u1"] = <<MaxCounter, 1>>



\* ---------------------------------------------------- claims: what a purge keeps
\* the step in which _purge_locked runs, in purge_expired or in snapshot()
PurgeRuns ==
  \/ calls' = calls + 1 /\ lastOp'.kind = "purge_expired"
  \/ snapshots' = snapshots + 1

\* a purge took nothing it should keep from a bucket map and changed nothing
\* in what it kept
KeepsUnexpired(before, after, as_of) ==
  /\ \A k \in DOMAIN before : k[2] >= as_of - Retention => k \in DOMAIN after
  /\ \A k \in DOMAIN after : k \in DOMAIN before /\ after[k] = before[k]

\* C35 (a purge touches only expired buckets): purge_expired(as_of) and the
\* purge of a snapshot() taken at as_of remove no user or IP bucket with
\* bucket_start >= as_of - retention, leave every bucket they keep as it was,
\* and leave the baselines as they were; so a poll of an email polled before
\* adds to the bucket of its timestamp the delta against that email's
\* previous poll, also when every bucket of the email has been purged since.
C35_PurgeTouchesOnlyExpired ==
  [][/\ PurgeRuns =>
          /\ KeepsUnexpired(user_state, user_state', lastOp'.as_of)
          /\ KeepsUnexpired(ip_state, ip_state', lastOp'.as_of)
          /\ user_totals' = user_totals
     /\ PollStep =>
          LET c == lastOp'.counters
              k(e) == <<e, BucketOf(lastOp'.timestamp)>>
          IN \A e \in (DOMAIN c) \cap (DOMAIN h_reported) :
               /\ UpBytes(user_state', k(e))
                    = UpBytes(user_state, k(e)) + DeltaRule(c[e][1], h_reported[e][1])
               /\ DownBytes(user_state', k(e))
                    = DownBytes(user_state, k(e)) + DeltaRule(c[e][2], h_reported[e][2])]_vars

\* purge_expired has just deleted every bucket of an email, and the email's baseline is still the pair of
\* its latest poll
C35_Witness ==
  /\ lastOp.kind = "purge_expired"
  /\ \E k \in lastOp.users_before : k[1] = "u1"
  /\ \A k \in DOMAIN user_state : k[1] # "u1"
  /\ "u1" \in DOMAIN user_totals
  /\ user_totals["u1"] = h_reported["u1"]
  /\ user_totals["u1"][1] > 0



\* ---------------------------------------------------- claims: user-bucket counters
\* the counters of one user bucket agree with each other
CountersAgree(conn_total, conn_tcp, conn_udp, ip_breakdown, host_breakdown, rejects) ==
  /\ conn_tcp + conn_udp = conn_total
  /\ SumMap(ip_breakdown) = conn_total
  /\ SumMap(host_breakdown) = conn_total
  /\ 0 <= rejects /\ rejects <= conn_total

\* the recorded events of a bucket that did not come over UDP
NotOverUdp(email, bucket_start) ==
  {i \in RecordedFor(email, bucket_start) : plan.tail[i].transport \in {"tcp", "unix", ""}}

\* C36 (user-bucket counter invariant): in every state of the aggregator and
\* in every snapshot, in progress or returned, each user bucket has
\* conn_tcp + conn_udp = conn_total = the sum of its ip_breakdown = the sum of
\* its host_breakdown and 0 <= rejects <= conn_total; and every recorded event
\* whose transport is "tcp", "unix" or empty is counted under conn_tcp.
C36_UserBucketCounters ==
  /\ \A k \in DOMAIN user_state :
       LET b == user_state[k]
       IN /\ CountersAgree(b.conn_total, b.conn_tcp, b.conn_udp, b.ip_counts,
                           b.host_counts, b.rejects)
          /\ b.conn_tcp = Cardinality(NotOverUdp(k[1], k[2]))
          /\ b.conn_total = Cardinality(RecordedFor(k[1], k[2]))
  /\ \A b \in ReturnedUsers \cup {snap.user_buckets[k] : k \in DOMAIN snap.user_buckets} :
       CountersAgree(b.conn_total, b.conn_tcp, b.conn_udp, b.ip_breakdown,
                     b.host_breakdown, b.rejects)

\* a snapshot has returned a user bucket of two events, one over UDP and one
\* with an empty transport, no address and no target
C36_Witness ==
  /\ HasSnapshot
  /\ \E b \in ReturnedUsers :
       /\ b.conn_total = 2 /\ b.conn_udp = 1 /\ b.conn_tcp = 1
       /\ "" \in DOMAIN b.ip_breakdown
       /\ "" \in DOMAIN b.host_breakdown
       /\ \E i \in RecordedFor(b.email, b.bucket_start) : plan.tail[i].transport = ""



\* ---------------------------------------------------- claims: the two indexes
\* how often the stored user bucket (e, b) has seen the address i, and how
\* often the stored IP bucket (i, b) has seen the email e; 0 without a bucket
UserSide(us, e, i, b) == IF <<e, b>> \in DOMAIN us THEN Get(us[<<e, b>>].ip_counts, i) ELSE 0
IpSide(ips, e, i, b) == IF <<i, b>> \in DOMAIN ips THEN Get(ips[<<i, b>>].users, e) ELSE 0

BucketStarts == {b \in 0..(MaxTime + BucketSeconds) : b % BucketSeconds = 0}

\* C37 (the user and IP indexes agree): after any sequence of
\* record_log_events and purge_expired calls, for every email e, non-empty
\* address i and time bucket b, the user bucket (e, b) has ip_breakdown[i] = n
\* > 0 exactly when the IP bucket (i, b) has users[e] = n; and a purge never
\* removes one of the two buckets and keeps the other.
C37_IndexesAgree ==
  /\ [](\A e \in Emails \cup {""}, i \in Ips, b \in BucketStarts :
          UserSide(user_state, e, i, b) = IpSide(ip_state, e, i, b))
  /\ [][(calls' = calls + 1 /\ lastOp'.kind = "purge_expired") =>
          \A e \in Emails, i \in Ips, b \in BucketStarts :
            UserSide(user_state, e, i, b) > 0 =>
              (<<e, b>> \in DOMAIN user_state' <=> <<i, b>> \in DOMAIN ip_state')]_vars

\* purge_expired has just removed the user bucket and the IP bucket of an
\* old event together and kept those of a recent one, which still agree
C37_Witness ==
  /\ lastOp.kind = "purge_expired"
  /\ <<"u1", 0>> \in lastOp.users_before /\ <<"ip1", 0>> \in lastOp.ips_before
  /\ <<"u1", 0>> \notin DOMAIN user_state /\ <<"ip1", 0>> \notin DOMAIN ip_state
  /\ UserSide(user_state, "u1", "ip1", BucketSeconds) = 1
  /\ IpSide(ip_state, "u1", "ip1", BucketSeconds) = 1



\* ---------------------------------------------------- claims: the empty address
\* C38 (no IP bucket for the empty address): record_ip_counters being called
\* with non-empty addresses only, no returned snapshot holds an IP bucket whose
\* ip is the empty string, also when events without an address were recorded
\* for a user whose bucket holds polled bytes.
C38_NoIpBucketForEmptyAddress == \A b \in ReturnedIps : b.ip # ""



\* ------------------------------------------------------ claims: the lock
\* thread t stands at its call number n + 1, which has not taken the lock yet
AtCall(t, n) == done[t] = n /\ n < Len(plan[t]) /\ pc[t] = "idle"

\* the call number n + 1 of thread t has returned
Returned(t, n) == done[t] > n /\ pc[t] = "idle"

\* thread t is inside a `with self._lock:` block
InsideWith(t) == pc[t] \in {"release", "snap_unlock"}

\* C39 (the lock never blocks a worker forever): a thread holds the lock only
\* inside the `with` block of an operation, so it has released it when the
\* operation returns and it never stands at an acquisition while holding it;
\* the lock is only ever taken when it is free; and, both workers being
\* scheduled fairly, every record_*, purge_expired or snapshot call a worker
\* reaches eventually returns.
C39_LockNeverBlocksForever ==
  /\ [](\A t \in Threads : lock = t => InsideWith(t))
  /\ [][/\ \A t \in Threads : (pc[t] # "idle" /\ pc'[t] = "idle") => lock' # t
        /\ (lock' # lock /\ lock' # NoThread) => lock = NoThread]_vars
  /\ \A t \in {"tail", "poll"} : \A n \in 0..MaxPlan :
       AtCall(t, n) ~> Returned(t, n)

\* the polling worker's snapshot() waits for the lock, which the tail worker
\* holds, after an earlier call of the polling worker has returned
C39_Witness ==
  /\ pc["poll"] = "snap_wait"
  /\ lock = "tail"
  /\ done.poll >= 2
  /\ plan.poll[1].op # "snapshot"

====
